---- MODULE Spec2Model ----
(***************************************************************************)
(* State-machine model of the context-aware memory engine:                 *)
(*   SemanticMemoryStore   (tools/semantic_storage.py)                     *)
(*   IntelligentRetriever  (tools/intelligent_retrieval.py)                *)
(*   PreloadCache          (tools/predictive_loading.py)                   *)
(*                                                                         *)
(* Conventions.                                                            *)
(*  - Python objects live in `heap`; a dict that stores a MemoryItem       *)
(*    stores a reference, so an in-place update is seen through every      *)
(*    alias (the store, the query cache, the preload cache).               *)
(*  - A Python dict is a function whose DOMAIN is its key set; where the   *)
(*    code iterates a dict, a sequence keeps the insertion order.          *)
(*  - Time is an integer number of minutes (datetime.now() is `clock`).    *)
(*  - A score s in [0,1] is the integer s * ONE; ONE is chosen so that     *)
(*    every quotient the code forms on the modelled inputs is exact.       *)
(*  - A text is a string of a small catalogue; Python's None is "None".    *)
(***************************************************************************)
EXTENDS Integers, Sequences, FiniteSets, TLC

VARIABLES
    clock,              \* datetime.now(), minutes
    embedding_manager,  \* TRUE iff an embedding manager is attached
    heap,               \* reference -> MemoryItem object
    memories,           \* SemanticMemoryStore.memories: id -> reference
    mem_order,          \* insertion order of the keys of memories
    memory_index,       \* tag -> set of ids
    context_index,      \* "project:X" / "user:Y" -> set of ids
    embeddings,         \* id -> embedding
    stats,              \* SemanticMemoryStore.stats
    disk,               \* ids that have a file under data_dir/memories
    user_profiles,      \* IntelligentRetriever.user_profiles
    retrieval_history,  \* IntelligentRetriever.retrieval_history
    strategy_performance, \* IntelligentRetriever.strategy_performance
    query_cache,        \* IntelligentRetriever.query_cache
    cache_memories,     \* PreloadCache.memories: id -> reference
    cache_order,        \* insertion order of the keys of PreloadCache's dicts
    hit_rate,           \* PreloadCache.hit_rate
    load_times,         \* PreloadCache.load_times
    access_counts,      \* PreloadCache.access_counts
    temporal_patterns,  \* MemoryPredictor.temporal_patterns: user -> events
    pattern_users,      \* insertion order of the keys of temporal_patterns
    context_associations, \* MemoryPredictor.context_associations
    sequence_patterns,  \* MemoryPredictor.sequence_patterns: user -> ids
    user_workflows,     \* MemoryPredictor.user_workflows: user -> workflows
    recent_accesses,    \* PredictiveLoader.recent_accesses: user -> deque
    predictions,        \* PredictiveLoader.predictions
    metrics,            \* PredictiveLoader.metrics
    tasks,              \* the coroutines suspended at an await
    ret                 \* what the last operation returned to its caller

storeVars == <<memories, mem_order, memory_index, context_index,
               embeddings, stats, disk>>

retrieverVars == <<user_profiles, retrieval_history, strategy_performance,
                   query_cache>>

cacheVars == <<cache_memories, cache_order, load_times, access_counts,
               hit_rate>>

predictorVars == <<temporal_patterns, pattern_users, context_associations,
                   sequence_patterns, user_workflows>>

loaderVars == <<recent_accesses, predictions, metrics>>

vars == <<clock, embedding_manager, tasks, heap, storeVars, retrieverVars, cacheVars,
          predictorVars, loaderVars, ret>>

----------------------------------------------------------------------------
(* Bounds of the model *)

MaxRefs == 3        \* live MemoryItem objects
MaxAccess == 1      \* cap of access_count / total_retrievals
MaxClock == 6       \* last minute the clock reaches
MaxHistory == 2     \* computed retrievals recorded in retrieval_history
MaxStored == 21     \* predictions kept in PredictiveLoader.predictions
MaxEvents == 3      \* access events recorded by the free workload
MaxHours == 1       \* hours that pass in the predictor's runs

----------------------------------------------------------------------------
(* Generic helpers for dicts and lists *)

None == "None"

Put(f, k, v) == [x \in (DOMAIN f) \cup {k} |-> IF x = k THEN v ELSE f[x]]

Drop(f, k) == [x \in (DOMAIN f) \ {k} |-> f[x]]

Get(f, k, default) == IF k \in DOMAIN f THEN f[k] ELSE default

Range(s) == {s[i] : i \in DOMAIN s}

RemoveFromSeq(s, k) == SelectSeq(s, LAMBDA x : x # k)

Min2(a, b) == IF a <= b THEN a ELSE b

Max2(a, b) == IF a >= b THEN a ELSE b

(* list[:n] *)
Take(s, n) == SubSeq(s, 1, Min2(n, Len(s)))

(* Python's list.sort(key=..., reverse=True): a stable sort, descending by *)
(* key, equal keys keep their order.  The argument is the list of          *)
(* [k |-> key, v |-> element]; each element is inserted after the last      *)
(* element whose key is >= its own.                                         *)
RECURSIVE InsertDesc(_, _)
InsertDesc(sorted, x) ==
    IF sorted = <<>> THEN <<x>>
    ELSE IF Head(sorted).k >= x.k
         THEN <<Head(sorted)>> \o InsertDesc(Tail(sorted), x)
         ELSE <<x>> \o sorted

RECURSIVE SortKeyed(_)
SortKeyed(s) ==
    IF s = <<>> THEN <<>>
    ELSE InsertDesc(SortKeyed(SubSeq(s, 1, Len(s) - 1)), s[Len(s)])

SortDesc(s) == LET t == SortKeyed(s) IN [i \in DOMAIN t |-> t[i].v]

----------------------------------------------------------------------------
(* Scores *)

(* 1.0 as an integer: 2^10 * 3^4 * 5^4 * 7, a multiple of every denominator *)
(* the scoring code produces on minute-granular times.                      *)
ONE == 1024 * 81 * 625 * 7

Tenths(n) == n * (ONE \div 10)

----------------------------------------------------------------------------
(* Texts *)

(* A text is a string of the catalogue below; str.split() of each *)
Split(text) ==
    CASE text = "" -> <<>>
      [] text = "alpha" -> <<"alpha">>
      [] text = "Alpha beta" -> <<"Alpha", "beta">>
      [] text = "beta" -> <<"beta">>
      [] text = "gamma" -> <<"gamma">>
      [] text = "important alpha" -> <<"important", "alpha">>
      [] text = "Recent key" -> <<"Recent", "key">>
      [] text = "renewal" -> <<"renewal">>
      [] text = "team alpha" -> <<"team", "alpha">>
      [] text = "urgent team" -> <<"urgent", "team">>
      [] OTHER -> <<text>>

(* str.lower() on one word *)
Lower(w) ==
    CASE w = "Alpha" -> "alpha"
      [] w = "Recent" -> "recent"
      [] OTHER -> w

(* set(text.lower().split()) *)
WordSet(text) == {Lower(Split(text)[i]) : i \in DOMAIN Split(text)}

(* the keywords of _select_strategy that are substrings of a lower-case word *)
KeywordsInWord(w) ==
    CASE w = "important" -> {"important"}
      [] w = "key" -> {"key"}
      [] w = "recent" -> {"recent"}
      [] w = "renewal" -> {"new"}
      [] w = "shared" -> {"shared"}
      [] w = "team" -> {"team"}
      [] w = "urgent" -> {"urgent"}
      [] OTHER -> {}

(* `word in text.lower()` for a keyword without white space *)
Contains(text, word) == \E w \in WordSet(text) : word \in KeywordsInWord(w)

(* hashlib.md5(content.encode()).hexdigest(): injective on the modelled     *)
(* contents, never the empty string                                         *)
Md5(content) == <<"md5", content>>

(* content_hash = "" *)
EmptyHash == <<>>

(* the external embedding service: one vector per text, a function of the   *)
(* text alone                                                               *)
Encode(text) == <<"vec", WordSet(text)>>

(* embedding = None *)
NoEmbedding == <<>>

(* cosine similarity of two vectors of the modelled service: 1.0 for equal  *)
(* vectors, the token overlap ratio otherwise                                *)
Cosine(e1, e2) ==
    LET a == e1[2]
        b == e2[2]
    IN  IF a = {} \/ b = {} THEN 0
        ELSE (ONE * Cardinality(a \cap b)) \div Cardinality(a \cup b)

(* SemanticMemoryStore._text_similarity: Jaccard similarity of the word sets *)
TextSimilarity(text1, text2) ==
    LET words1 == WordSet(text1)
        words2 == WordSet(text2)
    IN  IF words1 = {} \/ words2 = {} THEN 0
        ELSE (ONE * Cardinality(words1 \cap words2))
                 \div Cardinality(words1 \cup words2)

----------------------------------------------------------------------------
(* MemoryContext, MemoryItem *)

(* an optional datetime that is None *)
NoTime == 0 - 1

(* context = None *)
NoContext == [absent |-> TRUE]

MemoryContext(project, user, session) ==
    [project |-> project, session |-> session, user |-> user,
     application |-> None, environment |-> None, timestamp |-> 0]

(* MemoryItem(...) followed by __post_init__; importance is in tenths *)
MemoryItem(id, content, content_hash, memory_type, context, tags, importance,
           access_level, expires_at, now) ==
    [memory_id |-> id,
     content |-> content,
     content_hash |-> IF content_hash = EmptyHash THEN Md5(content)
                      ELSE content_hash,
     memory_type |-> memory_type,
     context |-> IF context = NoContext THEN MemoryContext(None, None, None)
                 ELSE context,
     tags |-> tags,
     importance |-> importance,
     access_level |-> access_level,
     created_at |-> now,
     updated_at |-> now,
     expires_at |-> expires_at,
     last_accessed |-> NoTime,
     access_count |-> 0,
     embedding |-> NoEmbedding,
     similarity_score |-> 0,
     related_memories |-> {}]

(* MemoryItem.update_access *)
update_access(m, now) ==
    [m EXCEPT !.last_accessed = now, !.access_count = @ + 1]

(* MemoryItem.is_expired *)
is_expired(m, now) == m.expires_at # NoTime /\ now > m.expires_at

----------------------------------------------------------------------------
(* The object heap *)

Refs == 1..MaxRefs

FreeRefs(h) == Refs \ DOMAIN h

NewRef(h) == CHOOSE r \in FreeRefs(h) : \A q \in FreeRefs(h) : r <= q

(* objects no dict refers to any more are dropped *)
Gc(h, roots) == [r \in (DOMAIN h) \cap roots |-> h[r]]

(* no coroutine is suspended: none at the embedding call of store_memory,   *)
(* none at the embedding call of update_memory, none at a persistence call  *)
NoTasks == [encode_store |-> {}, encode_update |-> {}, save |-> {}]

(* the objects the frames of the suspended coroutines refer to *)
TaskRefs(ts) ==
    {t.memory : t \in ts.encode_update} \cup {t.memory : t \in ts.save}

(* the objects the store, the query cache, the preload cache and the        *)
(* suspended coroutines ts refer to                                         *)
RootsWith(mems, qcache, pcache, ts) ==
    {mems[k] : k \in DOMAIN mems}
    \cup UNION {{qcache[k].results[i].memory : i \in 1..Len(qcache[k].results)} :
                  k \in DOMAIN qcache}
    \cup {pcache[k] : k \in DOMAIN pcache}
    \cup TaskRefs(ts)

(* the same when the operation suspends and resumes no coroutine *)
Roots(mems, qcache, pcache) == RootsWith(mems, qcache, pcache, tasks)

----------------------------------------------------------------------------
(* SemanticMemoryStore: index maintenance *)

ContextKeys(m) ==
    (IF m.context.project # None THEN {<<"project", m.context.project>>} ELSE {})
    \cup
    (IF m.context.user # None THEN {<<"user", m.context.user>>} ELSE {})

AddToIndex(index, keys, id) ==
    [k \in (DOMAIN index) \cup keys |->
        IF k \in keys THEN Get(index, k, {}) \cup {id} ELSE index[k]]

DiscardFromIndex(index, keys, id) ==
    LET touched == keys \cap DOMAIN index
        kept == {k \in DOMAIN index : k \notin touched \/ index[k] \ {id} # {}}
    IN  [k \in kept |-> IF k \in touched THEN index[k] \ {id} ELSE index[k]]

(* _update_indexes: adds the id under the item's current tags and context *)
UpdateIndexesTag(index, m) == AddToIndex(index, m.tags, m.memory_id)

UpdateIndexesCtx(index, m) == AddToIndex(index, ContextKeys(m), m.memory_id)

(* _remove_from_indexes: discards the id under the item's current tags and *)
(* context, deleting a key whose set becomes empty                          *)
RemoveFromIndexesTag(index, m) == DiscardFromIndex(index, m.tags, m.memory_id)

RemoveFromIndexesCtx(index, m) ==
    DiscardFromIndex(index, ContextKeys(m), m.memory_id)

(* _save_memory_to_disk: a failure is logged and swallowed *)
SaveToDisk(d, id, disk_ok) == IF disk_ok THEN d \cup {id} ELSE d

----------------------------------------------------------------------------
(* SemanticMemoryStore: operations *)

(* optional arguments of update_memory that are None *)
NoTags == {None}

NoImportance == 0 - 1

(* the operation, its argument, its result and the items it returned, and    *)
(* the time of the call                                                     *)
Returned(op, arg, result, items) ==
    [op |-> op, arg |-> arg, result |-> result, items |-> items, at |-> clock]

(* store_memory: the embedding call comes first, so a failing call raises   *)
(* before anything is written                                               *)
store_memory(item0, emb_ok, disk_ok) ==
    /\ FreeRefs(heap) # {}
    /\ LET id == item0.memory_id
           encode == embedding_manager /\ item0.content # ""
       IN  IF encode /\ ~emb_ok
           THEN /\ ret' = Returned("store_memory", id, "raised", <<>>)
                /\ UNCHANGED <<heap, storeVars>>
           ELSE LET item == IF encode
                            THEN [item0 EXCEPT !.embedding = Encode(item0.content)]
                            ELSE item0
                    r == NewRef(heap)
                    mems == Put(memories, id, r)
                IN  /\ embeddings' = IF encode
                                     THEN Put(embeddings, id, item.embedding)
                                     ELSE embeddings
                    /\ memories' = mems
                    /\ mem_order' = IF id \in DOMAIN memories THEN mem_order
                                    ELSE Append(mem_order, id)
                    /\ memory_index' = UpdateIndexesTag(memory_index, item)
                    /\ context_index' = UpdateIndexesCtx(context_index, item)
                    /\ stats' = [stats EXCEPT
                                   !.total_memories = Cardinality(DOMAIN mems)]
                    /\ disk' = SaveToDisk(disk, id, disk_ok)
                    /\ heap' = Gc(Put(heap, r, item),
                                  Roots(mems, query_cache, cache_memories))
                    /\ ret' = Returned("store_memory", id, id, <<>>)
    /\ UNCHANGED <<clock, embedding_manager, tasks, retrieverVars, cacheVars,
                   predictorVars, loaderVars>>

(* the mutant of retrieve_memory used by C18: a miss is counted in stats *)
retrieve_counting_misses(id, disk_ok) ==
    /\ IF id \in DOMAIN memories
       THEN LET r == memories[id]
                m == update_access(heap[r], clock)
            IN  /\ heap[r].access_count < MaxAccess
                /\ heap' = [heap EXCEPT ![r] = m]
                /\ disk' = SaveToDisk(disk, id, disk_ok)
                /\ stats' = stats
                /\ ret' = Returned("retrieve_memory", id, "item", <<m>>)
       ELSE /\ ret' = Returned("retrieve_memory", id, "None", <<>>)
            /\ stats' = [stats EXCEPT !.total_retrievals = @ + 1]
            /\ UNCHANGED <<heap, disk>>
    /\ UNCHANGED <<clock, embedding_manager, tasks, memories, mem_order, memory_index,
                   context_index, embeddings, retrieverVars, cacheVars,
                   predictorVars, loaderVars>>

(* retrieve_memory *)
retrieve_memory(id, disk_ok) ==
    /\ IF id \in DOMAIN memories
       THEN LET r == memories[id]
                m == update_access(heap[r], clock)
            IN  /\ heap[r].access_count < MaxAccess
                /\ heap' = [heap EXCEPT ![r] = m]
                /\ disk' = SaveToDisk(disk, id, disk_ok)
                /\ ret' = Returned("retrieve_memory", id, "item", <<m>>)
       ELSE /\ ret' = Returned("retrieve_memory", id, "None", <<>>)
            /\ UNCHANGED <<heap, disk>>
    /\ UNCHANGED <<clock, embedding_manager, tasks, memories, mem_order, memory_index,
                   context_index, embeddings, stats, retrieverVars, cacheVars,
                   predictorVars, loaderVars>>

(* update_memory: the fields are written in the order of the code; when the *)
(* embedding call raises, the except clause returns False with content and  *)
(* content_hash already replaced                                            *)
update_memory(id, content, context, tags, importance, emb_ok, disk_ok) ==
    /\ IF id \notin DOMAIN memories
       THEN /\ ret' = Returned("update_memory", id, "False", <<>>)
            /\ UNCHANGED <<heap, storeVars>>
       ELSE LET r == memories[id]
                m0 == heap[r]
                m1 == IF content # None
                      THEN [m0 EXCEPT !.content = content,
                                      !.content_hash = Md5(content)]
                      ELSE m0
                encode == content # None /\ embedding_manager
            IN  IF encode /\ ~emb_ok
                THEN /\ heap' = [heap EXCEPT ![r] = m1]
                     /\ ret' = Returned("update_memory", id, "False", <<>>)
                     /\ UNCHANGED storeVars
                ELSE LET m2 == IF encode
                               THEN [m1 EXCEPT !.embedding = Encode(content)]
                               ELSE m1
                         m3 == IF context # NoContext
                               THEN [m2 EXCEPT !.context = context] ELSE m2
                         m4 == IF tags # NoTags
                               THEN [m3 EXCEPT !.tags = tags] ELSE m3
                         m5 == IF importance # NoImportance
                               THEN [m4 EXCEPT !.importance = importance]
                               ELSE m4
                         m6 == [m5 EXCEPT !.updated_at = clock]
                     IN  /\ heap' = [heap EXCEPT ![r] = m6]
                         /\ embeddings' = IF encode
                                          THEN Put(embeddings, id, m6.embedding)
                                          ELSE embeddings
                         /\ memory_index' = UpdateIndexesTag(memory_index, m6)
                         /\ context_index' = UpdateIndexesCtx(context_index, m6)
                         /\ disk' = SaveToDisk(disk, id, disk_ok)
                         /\ ret' = Returned("update_memory", id, "True", <<>>)
                         /\ UNCHANGED <<memories, mem_order, stats>>
    /\ UNCHANGED <<clock, embedding_manager, tasks, retrieverVars, cacheVars,
                   predictorVars, loaderVars>>

(* delete_memory: unlinking the file is the only step that can raise; the   *)
(* except clause then returns False after the maps were already changed     *)
delete_memory(id, disk_ok) ==
    /\ IF id \notin DOMAIN memories
       THEN /\ ret' = Returned("delete_memory", id, "False", <<>>)
            /\ UNCHANGED <<heap, storeVars>>
       ELSE LET m == heap[memories[id]]
                mems == Drop(memories, id)
                unlink_raises == id \in disk /\ ~disk_ok
            IN  /\ memory_index' = RemoveFromIndexesTag(memory_index, m)
                /\ context_index' = RemoveFromIndexesCtx(context_index, m)
                /\ memories' = mems
                /\ mem_order' = RemoveFromSeq(mem_order, id)
                /\ embeddings' = Drop(embeddings, id)
                /\ heap' = Gc(heap, Roots(mems, query_cache, cache_memories))
                /\ IF unlink_raises
                   THEN /\ ret' = Returned("delete_memory", id, "False", <<>>)
                        /\ UNCHANGED <<stats, disk>>
                   ELSE /\ disk' = disk \ {id}
                        /\ stats' = [stats EXCEPT
                                       !.total_memories = Cardinality(DOMAIN mems)]
                        /\ ret' = Returned("delete_memory", id, "True", <<>>)
    /\ UNCHANGED <<clock, embedding_manager, tasks, retrieverVars, cacheVars,
                   predictorVars, loaderVars>>

(* MemoryItem.from_dict: the constructor runs __post_init__, which computes  *)
(* hash and the context only where the dict left them empty                 *)
from_dict(data) ==
    [data EXCEPT !.content_hash = IF @ = EmptyHash THEN Md5(data.content)
                                  ELSE @,
                 !.context = IF @ = NoContext
                             THEN MemoryContext(None, None, None) ELSE @]

(* the store's fields as one value, for the loop of import_memories *)
StoreState ==
    [heap |-> heap, memories |-> memories, mem_order |-> mem_order,
     memory_index |-> memory_index, context_index |-> context_index,
     embeddings |-> embeddings, stats |-> stats, disk |-> disk]

(* one store_memory call of the loop, on a store that is given as a value *)
StoreInto(st, item0, disk_ok) ==
    LET id == item0.memory_id
        encode == embedding_manager /\ item0.content # ""
        item == IF encode
                THEN [item0 EXCEPT !.embedding = Encode(item0.content)]
                ELSE item0
        r == NewRef(st.heap)
        mems == Put(st.memories, id, r)
    IN  [heap |-> Gc(Put(st.heap, r, item),
                     Roots(mems, query_cache, cache_memories)),
         memories |-> mems,
         mem_order |-> IF id \in DOMAIN st.memories THEN st.mem_order
                       ELSE Append(st.mem_order, id),
         memory_index |-> UpdateIndexesTag(st.memory_index, item),
         context_index |-> UpdateIndexesCtx(st.context_index, item),
         embeddings |-> IF encode THEN Put(st.embeddings, id, item.embedding)
                        ELSE st.embeddings,
         stats |-> [st.stats EXCEPT
                      !.total_memories = Cardinality(DOMAIN mems)],
         disk |-> SaveToDisk(st.disk, id, disk_ok)]

NoCounts == [imported_count |-> 0, skipped_count |-> 0, error_count |-> 0]

(* the loop of import_memories over data['memories'][i..]: the store and    *)
(* the three counters after it; an embedding call that raises is caught per *)
(* item and counted                                                         *)
RECURSIVE ImportLoop(_, _, _, _, _, _, _)
ImportLoop(st, counts, memories_data, i, merge_strategy, emb_ok, disk_ok) ==
    IF i > Len(memories_data) THEN [st |-> st, counts |-> counts]
    ELSE LET memory == from_dict(memories_data[i])
             known == memory.memory_id \in DOMAIN st.memories
             raises == embedding_manager /\ memory.content # "" /\ ~emb_ok
         IN  IF merge_strategy = "skip_existing" /\ known
             THEN ImportLoop(st, [counts EXCEPT !.skipped_count = @ + 1],
                             memories_data, i + 1, merge_strategy, emb_ok,
                             disk_ok)
             ELSE IF merge_strategy = "overwrite" \/ ~known
             THEN IF raises
                  THEN ImportLoop(st, [counts EXCEPT !.error_count = @ + 1],
                                  memories_data, i + 1, merge_strategy, emb_ok,
                                  disk_ok)
                  ELSE ImportLoop(StoreInto(st, memory, disk_ok),
                                  [counts EXCEPT !.imported_count = @ + 1],
                                  memories_data, i + 1, merge_strategy, emb_ok,
                                  disk_ok)
             ELSE ImportLoop(st, counts, memories_data, i + 1, merge_strategy,
                             emb_ok, disk_ok)

(* import_memories *)
import_memories(memories_data, merge_strategy, emb_ok, disk_ok) ==
    /\ Cardinality(DOMAIN heap) + Len(memories_data) <= MaxRefs
    /\ \E done \in {ImportLoop(StoreState, NoCounts, memories_data, 1,
                               merge_strategy, emb_ok, disk_ok)} :
        /\ heap' = done.st.heap
        /\ memories' = done.st.memories
        /\ mem_order' = done.st.mem_order
        /\ memory_index' = done.st.memory_index
        /\ context_index' = done.st.context_index
        /\ embeddings' = done.st.embeddings
        /\ stats' = done.st.stats
        /\ disk' = done.st.disk
        /\ ret' = Returned("import_memories",
                           [memories |-> memories_data,
                            merge_strategy |-> merge_strategy],
                           [imported_count |-> done.counts.imported_count,
                            skipped_count |-> done.counts.skipped_count,
                            error_count |-> done.counts.error_count,
                            total_memories |->
                                Cardinality(DOMAIN done.st.memories)],
                           <<>>)
    /\ UNCHANGED <<clock, embedding_manager, tasks, retrieverVars, cacheVars,
                   predictorVars, loaderVars>>

(* cleanup, the body of its first loop: the reason the item is put on       *)
(* to_delete, None when it is not; importance is in tenths and              *)
(* get_age_hours() > 24 * 30 is taken in minutes                            *)
CleanupReason(m, now) ==
    IF is_expired(m, now) THEN "expired"
    ELSE IF /\ m.importance < 2
            /\ now - m.created_at > 24 * 30 * 60
            /\ m.access_count < 2
         THEN "low_value"
    ELSE None

(* cleanup: to_delete, in the order of memories.values(); age_hours in      *)
(* whole hours                                                              *)
to_delete ==
    LET ids == SelectSeq(mem_order,
                   LAMBDA id : CleanupReason(heap[memories[id]], clock) # None)
    IN  [i \in DOMAIN ids |->
            LET m == heap[memories[ids[i]]]
            IN  [memory_id |-> m.memory_id,
                 reason |-> CleanupReason(m, clock),
                 importance |-> m.importance,
                 age_hours |-> (clock - m.created_at) \div 60,
                 access_count |-> m.access_count]]

(* one delete_memory call of cleanup, on a store that is given as a value;  *)
(* the objects are collected once the loop is over                          *)
DeleteFrom(st, id, disk_ok) ==
    IF id \notin DOMAIN st.memories THEN st
    ELSE LET m == st.heap[st.memories[id]]
             mems == Drop(st.memories, id)
             unlink_raises == id \in st.disk /\ ~disk_ok
         IN  [heap |-> st.heap,
              memories |-> mems,
              mem_order |-> RemoveFromSeq(st.mem_order, id),
              memory_index |-> RemoveFromIndexesTag(st.memory_index, m),
              context_index |-> RemoveFromIndexesCtx(st.context_index, m),
              embeddings |-> Drop(st.embeddings, id),
              stats |-> IF unlink_raises THEN st.stats
                        ELSE [st.stats EXCEPT
                                !.total_memories = Cardinality(DOMAIN mems)],
              disk |-> IF unlink_raises THEN st.disk ELSE st.disk \ {id}]

(* the second loop of cleanup over to_delete[i..] *)
RECURSIVE CleanupLoop(_, _, _, _)
CleanupLoop(st, candidates, i, disk_ok) ==
    IF i > Len(candidates) THEN st
    ELSE CleanupLoop(DeleteFrom(st, candidates[i].memory_id, disk_ok),
                     candidates, i + 1, disk_ok)

(* cleanup: deleted_count counts the calls of delete_memory, whatever they  *)
(* return, and remaining_memories subtracts it from the length memories has *)
(* after the loop                                                           *)
cleanup(dry_run, disk_ok) ==
    /\ \E candidates \in {to_delete} :
        LET done == IF dry_run THEN StoreState
                    ELSE CleanupLoop(StoreState, candidates, 1, disk_ok)
            deleted_count == IF dry_run THEN 0 ELSE Len(candidates)
        IN  /\ heap' = Gc(heap, Roots(done.memories, query_cache,
                                      cache_memories))
            /\ memories' = done.memories
            /\ mem_order' = done.mem_order
            /\ memory_index' = done.memory_index
            /\ context_index' = done.context_index
            /\ embeddings' = done.embeddings
            /\ disk' = done.disk
            /\ stats' = IF dry_run THEN stats
                        ELSE [done.stats EXCEPT !.last_cleanup = clock]
            /\ ret' = Returned("cleanup", dry_run,
                               [candidates |-> candidates,
                                deleted_count |-> deleted_count,
                                remaining_memories |->
                                    Cardinality(DOMAIN done.memories)
                                        - deleted_count],
                               <<>>)
    /\ UNCHANGED <<clock, embedding_manager, tasks, retrieverVars, cacheVars,
                   predictorVars, loaderVars>>

(* The coroutines of store_memory and update_memory, one step from await to *)
(* await.  A coroutine awaits the embedding service and the persistence     *)
(* call; while it is suspended its frame is kept in tasks.                  *)

(* store_memory from the end of its embedding call to its persistence call; *)
(* ts is tasks without the coroutine that runs                              *)
StoreThenSave(item0, ts) ==
    \E st \in {StoreInto(StoreState, item0, FALSE)} :
        /\ heap' = st.heap
        /\ memories' = st.memories
        /\ mem_order' = st.mem_order
        /\ memory_index' = st.memory_index
        /\ context_index' = st.context_index
        /\ embeddings' = st.embeddings
        /\ stats' = st.stats
        /\ tasks' = [ts EXCEPT !.save = @ \cup
                        {[op |-> "store_memory",
                          memory_id |-> item0.memory_id,
                          memory |-> st.memories[item0.memory_id]]}]
        /\ ret' = Returned("await", item0.memory_id, "save", <<>>)
        /\ UNCHANGED disk

(* store_memory up to its first await *)
store_begin(item0) ==
    /\ FreeRefs(heap) # {}
    /\ IF embedding_manager /\ item0.content # ""
       THEN /\ tasks' = [tasks EXCEPT !.encode_store = @ \cup {item0}]
            /\ ret' = Returned("await", item0.memory_id, "encode", <<>>)
            /\ UNCHANGED <<heap, storeVars>>
       ELSE StoreThenSave(item0, tasks)
    /\ UNCHANGED <<clock, embedding_manager, retrieverVars, cacheVars,
                   predictorVars, loaderVars>>

(* the embedding call of a store_memory returns or raises *)
store_encoded(item0, emb_ok) ==
    /\ item0 \in tasks.encode_store
    /\ FreeRefs(heap) # {}
    /\ IF emb_ok
       THEN StoreThenSave(item0, [tasks EXCEPT !.encode_store = @ \ {item0}])
       ELSE /\ tasks' = [tasks EXCEPT !.encode_store = @ \ {item0}]
            /\ ret' = Returned("store_memory", item0.memory_id, "raised", <<>>)
            /\ UNCHANGED <<heap, storeVars>>
    /\ UNCHANGED <<clock, embedding_manager, retrieverVars, cacheVars,
                   predictorVars, loaderVars>>

(* update_memory from the end of its embedding call (encoded) or from the   *)
(* test of content (not encoded) to its persistence call, on the object r   *)
(* the coroutine got from memories; ts is tasks without the coroutine       *)
UpdateThenSave(id, r, encoded, content, context, tags, importance, ts) ==
    LET m1 == heap[r]
        m2 == IF encoded THEN [m1 EXCEPT !.embedding = Encode(content)] ELSE m1
        m3 == IF context # NoContext THEN [m2 EXCEPT !.context = context]
              ELSE m2
        m4 == IF tags # NoTags THEN [m3 EXCEPT !.tags = tags] ELSE m3
        m5 == IF importance # NoImportance
              THEN [m4 EXCEPT !.importance = importance] ELSE m4
        m6 == [m5 EXCEPT !.updated_at = clock]
        ts1 == [ts EXCEPT !.save = @ \cup
                   {[op |-> "update_memory", memory_id |-> id, memory |-> r]}]
    IN  /\ heap' = Gc([heap EXCEPT ![r] = m6],
                      RootsWith(memories, query_cache, cache_memories, ts1))
        /\ embeddings' = IF encoded THEN Put(embeddings, id, m6.embedding)
                         ELSE embeddings
        /\ memory_index' = UpdateIndexesTag(memory_index, m6)
        /\ context_index' = UpdateIndexesCtx(context_index, m6)
        /\ tasks' = ts1
        /\ ret' = Returned("await", id, "save", <<>>)
        /\ UNCHANGED <<memories, mem_order, stats, disk>>

(* update_memory up to its first await *)
update_begin(id, content, context, tags, importance) ==
    /\ IF id \notin DOMAIN memories
       THEN /\ ret' = Returned("update_memory", id, "False", <<>>)
            /\ UNCHANGED <<heap, storeVars, tasks>>
       ELSE LET r == memories[id]
            IN  IF content # None /\ embedding_manager
                THEN /\ heap' = [heap EXCEPT
                                   ![r].content = content,
                                   ![r].content_hash = Md5(content)]
                     /\ tasks' = [tasks EXCEPT !.encode_update = @ \cup
                                     {[memory_id |-> id, memory |-> r,
                                       content |-> content, context |-> context,
                                       tags |-> tags,
                                       importance |-> importance]}]
                     /\ ret' = Returned("await", id, "encode", <<>>)
                     /\ UNCHANGED storeVars
                ELSE UpdateThenSave(id, r, FALSE, content, context, tags,
                                    importance, tasks)
    /\ UNCHANGED <<clock, embedding_manager, retrieverVars, cacheVars,
                   predictorVars, loaderVars>>

(* the embedding call of an update_memory returns or raises *)
update_encoded(t, emb_ok) ==
    /\ t \in tasks.encode_update
    /\ LET ts == [tasks EXCEPT !.encode_update = @ \ {t}]
       IN  IF emb_ok
           THEN UpdateThenSave(t.memory_id, t.memory, TRUE, t.content,
                               t.context, t.tags, t.importance, ts)
           ELSE /\ heap' = Gc(heap, RootsWith(memories, query_cache,
                                              cache_memories, ts))
                /\ tasks' = ts
                /\ ret' = Returned("update_memory", t.memory_id, "False", <<>>)
                /\ UNCHANGED storeVars
    /\ UNCHANGED <<clock, embedding_manager, retrieverVars, cacheVars,
                   predictorVars, loaderVars>>

(* the persistence call of a store_memory or an update_memory is made and   *)
(* the coroutine returns                                                    *)
saved(t, disk_ok) ==
    /\ t \in tasks.save
    /\ LET ts == [tasks EXCEPT !.save = @ \ {t}]
       IN  /\ heap' = Gc(heap, RootsWith(memories, query_cache, cache_memories,
                                         ts))
           /\ tasks' = ts
    /\ disk' = SaveToDisk(disk, t.memory_id, disk_ok)
    /\ ret' = Returned(t.op, t.memory_id,
                       IF t.op = "store_memory" THEN t.memory_id ELSE "True",
                       <<>>)
    /\ UNCHANGED <<clock, embedding_manager, memories, mem_order, memory_index,
                   context_index, embeddings, stats, retrieverVars, cacheVars,
                   predictorVars, loaderVars>>

(* The filters dict of search.  A key that is absent from the dict has the   *)
(* Absent value of its field; memory_type is [kind, value] because          *)
(* _build_filters passes a list where _apply_filters compares with a string *)
NoRange == <<>>

NoMinImportance == 0 - 1

AbsentType == [kind |-> "absent", value |-> None]

NoFilters ==
    [tags |-> NoTags, memory_type |-> AbsentType,
     min_importance |-> NoMinImportance, project |-> None, user |-> None,
     time_range |-> NoRange, access_level |-> None]

(* _apply_filters: the keys it reads are tags, memory_type, min_importance, *)
(* project, user and time_range; a memory_type given as a list never equals *)
(* the item's type string                                                   *)
ApplyFilters(m, filters) ==
    /\ filters.tags # NoTags => filters.tags \cap m.tags # {}
    /\ filters.memory_type.kind = "str" => m.memory_type = filters.memory_type.value
    /\ filters.memory_type.kind # "list"
    /\ filters.min_importance # NoMinImportance
          => ~(m.importance < filters.min_importance)
    /\ filters.project # None => m.context.project = filters.project
    /\ filters.user # None => m.context.user = filters.user
    /\ filters.time_range # NoRange
          => (filters.time_range[1] <= m.created_at
              /\ m.created_at <= filters.time_range[2])

(* the similarity search computes for one item *)
SearchSimilarity(query, m, use_embedding) ==
    IF use_embedding /\ m.embedding # NoEmbedding
    THEN Cosine(Encode(query), m.embedding)
    ELSE TextSimilarity(query, m.content)

(* The body of search for a working embedding call: the new heap and the    *)
(* references of the returned items.  Every item that passes the filters    *)
(* gets its similarity_score overwritten; the returned ones get             *)
(* update_access.                                                           *)
SearchScored(h, query, filters) ==
    LET passing == SelectSeq(mem_order,
                             LAMBDA id : ApplyFilters(h[memories[id]], filters))
        refs == [i \in DOMAIN passing |-> memories[passing[i]]]
    IN  [r \in DOMAIN h |->
            IF r \in Range(refs)
            THEN [h[r] EXCEPT !.similarity_score =
                                 SearchSimilarity(query, h[r], embedding_manager)]
            ELSE h[r]]

SearchResults(h1, filters, limit) ==
    LET passing == SelectSeq(mem_order,
                             LAMBDA id : ApplyFilters(h1[memories[id]], filters))
        above == SelectSeq(passing,
                   LAMBDA id : h1[memories[id]].similarity_score > ONE \div 10)
        keyed == [i \in DOMAIN above |->
                     [k |-> h1[memories[above[i]]].similarity_score,
                      v |-> memories[above[i]]]]
    IN  Take(SortDesc(keyed), limit)

SearchAccessed(h1, results, now) ==
    [r \in DOMAIN h1 |->
        IF r \in Range(results) THEN update_access(h1[r], now) ELSE h1[r]]

SumSimilarity(h, results) ==
    LET RECURSIVE Sum(_)
        Sum(i) == IF i = 0 THEN 0 ELSE h[results[i]].similarity_score + Sum(i - 1)
    IN  Sum(Len(results))

(* search: an exception (the embedding call failing) returns [] *)
search(query, filters, limit, emb_ok) ==
    /\ stats.total_retrievals < MaxAccess
    /\ IF embedding_manager /\ ~emb_ok
       THEN /\ ret' = Returned("search", query, "list", <<>>)
            /\ UNCHANGED <<heap, stats>>
       ELSE LET h1 == SearchScored(heap, query, filters)
                results == SearchResults(h1, filters, limit)
                h2 == SearchAccessed(h1, results, clock)
            IN  /\ \A i \in DOMAIN results : heap[results[i]].access_count < MaxAccess
                /\ heap' = h2
                /\ stats' = [stats EXCEPT
                       !.total_retrievals = @ + 1,
                       !.average_similarity =
                           IF results # <<>>
                           THEN SumSimilarity(h2, results) \div Len(results)
                           ELSE @]
                /\ ret' = Returned("search", query, "list",
                                   [i \in DOMAIN results |-> h2[results[i]]])
    /\ UNCHANGED <<clock, embedding_manager, tasks, memories, mem_order, memory_index,
                   context_index, embeddings, disk, retrieverVars, cacheVars,
                   predictorVars, loaderVars>>

(* the clock advances *)
Tick(d) ==
    /\ clock + d <= MaxClock
    /\ clock' = clock + d
    /\ UNCHANGED <<embedding_manager, tasks, heap, storeVars, retrieverVars, cacheVars,
                   predictorVars, loaderVars, ret>>

----------------------------------------------------------------------------
(* MemoryQuery *)

(* query.strategy: None by default; the server passes a RetrievalStrategy   *)
(* enum member, the only kind of value that has a .value attribute          *)
NoStrategy == [kind |-> "none", value |-> None]

RetrievalStrategy(value) == [kind |-> "enum", value |-> value]

(* memory_types and tags are the sets of the lists' elements, importance    *)
(* thresholds are in tenths                                                 *)
MemoryQuery(query_text, context, memory_types, tags, max_results,
            similarity_threshold, importance_threshold, include_expired,
            time_range, access_level, strategy) ==
    [query_text |-> query_text,
     context |-> context,
     memory_types |-> memory_types,
     tags |-> tags,
     max_results |-> max_results,
     similarity_threshold |-> similarity_threshold,
     importance_threshold |-> importance_threshold,
     include_expired |-> include_expired,
     time_range |-> time_range,
     access_level |-> access_level,
     strategy |-> strategy]

(* MemoryQuery.matches_memory: the hard filters *)
matches_memory(query, m, now) ==
    /\ ~(~query.include_expired /\ is_expired(m, now))
    /\ ~(query.memory_types # {} /\ m.memory_type \notin query.memory_types)
    /\ ~(query.tags # {} /\ query.tags \cap m.tags = {})
    /\ ~(m.importance < query.importance_threshold)
    /\ query.time_range # NoRange
          => (query.time_range[1] <= m.created_at
              /\ m.created_at <= query.time_range[2])
    /\ ~(query.access_level # None /\ m.access_level # query.access_level)

----------------------------------------------------------------------------
(* IntelligentRetriever: scoring functions *)

WeekMinutes == 7 * 24 * 60

DayMinutes == 24 * 60

FreshMinutes == 3 * 24 * 60

(* score * (tenths / 10) *)
Weighted(score, tenths) == (score \div 10) * tenths

(* max(0.1, 1.0 - age_hours / (24 * 7)) in units of 1 / WeekMinutes *)
TemporalBase(m, now) ==
    Max2(WeekMinutes \div 10, WeekMinutes - (now - m.created_at))

(* max(1.0, top - access_hours / 24) in units of 1 / DayMinutes; top is 2.0 *)
(* in _temporal_retrieval and 1.5 in _calculate_temporal_relevance          *)
AccessBoost(m, now, top) == Max2(DayMinutes, top - (now - m.last_accessed))

(* the base score times the boost of an item that was accessed before *)
TemporalScore(m, now, top) ==
    IF m.last_accessed # NoTime
    THEN TemporalBase(m, now) * AccessBoost(m, now, top)
             * (ONE \div (WeekMinutes * DayMinutes))
    ELSE TemporalBase(m, now) * (ONE \div WeekMinutes)

(* max(1, (now - created_at).days) *)
AgeDays(m, now) == Max2(1, (now - m.created_at) \div DayMinutes)

calculate_context_similarity(context1, context2) ==
    IF context1 = NoContext \/ context2 = NoContext THEN 0
    ELSE LET Both(f) == context1[f] # None /\ context2[f] # None
             Term(f, w) == IF Both(f) /\ context1[f] = context2[f] THEN w ELSE 0
             Factor(f) == IF Both(f) THEN 1 ELSE 0
             score == Term("project", 10) + Term("user", 8) + Term("session", 6)
                      + Term("application", 4) + Term("environment", 3)
             factors == Factor("project") + Factor("user") + Factor("session")
                        + Factor("application") + Factor("environment")
         IN  Tenths(score) \div Max2(1, factors)

calculate_temporal_relevance(m, now) ==
    Min2(ONE, TemporalScore(m, now, (3 * DayMinutes) \div 2))

calculate_frequency_score(m, now) ==
    Min2(ONE, (m.access_count * (ONE \div 5)) \div AgeDays(m, now))

(* the sum of preferences[tag] * 0.3 over the item's tags *)
RECURSIVE TagPreference(_, _)
TagPreference(tags, preferences) ==
    IF tags = {} THEN 0
    ELSE LET t == CHOOSE t \in tags : TRUE
         IN  (IF t \in DOMAIN preferences THEN Weighted(preferences[t], 3) ELSE 0)
             + TagPreference(tags \ {t}, preferences)

calculate_user_preference(m, user_profile) ==
    LET type_score ==
            IF m.memory_type \in DOMAIN user_profile.content_preferences
            THEN Weighted(user_profile.content_preferences[m.memory_type], 4)
            ELSE 0
        project_key == <<"project", m.context.project>>
        context_score ==
            IF m.context.project # None
               /\ project_key \in DOMAIN user_profile.context_preferences
            THEN Weighted(user_profile.context_preferences[project_key], 3)
            ELSE 0
    IN  Min2(ONE, type_score + TagPreference(m.tags, user_profile.preferences)
                  + context_score)

calculate_relationship_strength(m, candidate_ids) ==
    IF m.related_memories = {} THEN 0
    ELSE Min2(ONE, (ONE * Cardinality(m.related_memories \cap candidate_ids))
                       \div Max2(1, Cardinality(m.related_memories)))

calculate_freshness_score(m, now) ==
    Max2(ONE \div 10, ONE - (now - m.updated_at) * (ONE \div FreshMinutes))

(* the RankingFactor members in the order _rank_and_score fills the dict *)
FactorOrder ==
    <<"semantic_similarity", "context_match", "temporal_relevance",
      "access_frequency", "importance_score", "user_preference",
      "relationship_strength", "content_freshness">>

calculate_total_score(f) ==
    Min2(ONE, Weighted(f.semantic_similarity, 3)
              + Weighted(f.context_match, 3)
              + Weighted(f.temporal_relevance, 2)
              + Weighted(f.access_frequency, 1)
              + Weighted(f.importance_score, 2)
              + Weighted(f.user_preference, 2)
              + Weighted(f.relationship_strength, 1)
              + Weighted(f.content_freshness, 1))

(* max(factor_scores.values()) *)
MaxFactorScore(f) ==
    CHOOSE s \in {f[FactorOrder[i]] : i \in DOMAIN FactorOrder} :
        \A i \in DOMAIN FactorOrder : f[FactorOrder[i]] <= s

(* max(factor_scores.items(), key=...): the first factor with the top score *)
determine_retrieval_reason(f) ==
    LET i == CHOOSE i \in DOMAIN FactorOrder :
                 /\ f[FactorOrder[i]] = MaxFactorScore(f)
                 /\ \A j \in 1..(i - 1) : f[FactorOrder[j]] < MaxFactorScore(f)
    IN  FactorOrder[i]

(* the mutant of calculate_confidence used by C14: no cap at 1.0 *)
UncappedConfidence(f, strategy) ==
    MaxFactorScore(f)
    + Min2(Tenths(2),
           Cardinality({i \in DOMAIN FactorOrder : f[FactorOrder[i]] > Tenths(7)})
           * (ONE \div 20))
    + (IF strategy \in {"hybrid", "adaptive"} THEN Tenths(1) ELSE 0)

(* _calculate_confidence *)
calculate_confidence(f, strategy) ==
    LET strong_factors ==
            Cardinality({i \in DOMAIN FactorOrder : f[FactorOrder[i]] > Tenths(7)})
        multi_factor_boost == Min2(Tenths(2), strong_factors * (ONE \div 20))
        strategy_boost == IF strategy \in {"hybrid", "adaptive"} THEN Tenths(1)
                          ELSE 0
    IN  Min2(ONE, MaxFactorScore(f) + multi_factor_boost + strategy_boost)

----------------------------------------------------------------------------
(* IntelligentRetriever: user profiles, strategy selection, cache key *)

UserProfile(user_id, now) ==
    [user_id |-> user_id, preferences |-> <<>>, content_preferences |-> <<>>,
     context_preferences |-> <<>>, similar_users |-> {}, last_updated |-> now]

HasUser(context) == context # NoContext /\ context.user # None

(* _get_user_profile: user_profiles after the call, and the profile returned *)
ProfilesAfterGet(profiles, context, now) ==
    IF HasUser(context) /\ context.user \notin DOMAIN profiles
    THEN Put(profiles, context.user, UserProfile(context.user, now))
    ELSE profiles

get_user_profile(profiles, context, now) ==
    IF HasUser(context)
    THEN ProfilesAfterGet(profiles, context, now)[context.user]
    ELSE UserProfile("anonymous", now)

temporal_words == {"recent", "latest", "yesterday", "today", "last", "new"}

importance_words == {"important", "critical", "urgent", "priority", "key"}

collab_words == {"team", "shared", "others", "colleagues", "everyone"}

(* the mutant of select_strategy used by C16: importance keywords first *)
importance_first(query) ==
    IF \E w \in importance_words : Contains(query.query_text, w)
    THEN "importance"
    ELSE IF \E w \in temporal_words : Contains(query.query_text, w)
    THEN "temporal"
    ELSE IF \E w \in collab_words : Contains(query.query_text, w)
    THEN "collaborative"
    ELSE IF query.context # NoContext /\ query.context.project # None
    THEN "contextual"
    ELSE "hybrid"

(* _select_strategy: reads the query text and the context's project only *)
select_strategy(query) ==
    IF \E w \in temporal_words : Contains(query.query_text, w) THEN "temporal"
    ELSE IF \E w \in importance_words : Contains(query.query_text, w)
    THEN "importance"
    ELSE IF \E w \in collab_words : Contains(query.query_text, w)
    THEN "collaborative"
    ELSE IF query.context # NoContext /\ query.context.project # None
    THEN "contextual"
    ELSE "hybrid"

(* _generate_cache_key evaluates query.strategy.value, which raises          *)
(* AttributeError unless query.strategy is an enum member                    *)
CacheKeyRaises(query) == query.strategy.kind # "enum"

(* the md5 of the JSON of these five values, one key per distinct tuple *)
generate_cache_key(query) ==
    <<query.query_text, query.max_results, query.similarity_threshold,
      query.strategy.value, query.context>>

(* _build_filters: memory types go in as a list, the access level under a   *)
(* key _apply_filters never reads                                           *)
build_filters(query) ==
    [tags |-> IF query.tags # {} THEN query.tags ELSE NoTags,
     memory_type |-> IF query.memory_types # {}
                     THEN [kind |-> "list", value |-> query.memory_types]
                     ELSE AbsentType,
     min_importance |-> IF query.importance_threshold > 0
                        THEN query.importance_threshold ELSE NoMinImportance,
     time_range |-> query.time_range,
     project |-> IF query.context # NoContext THEN query.context.project
                 ELSE None,
     user |-> IF query.context # NoContext THEN query.context.user ELSE None,
     access_level |-> query.access_level]

----------------------------------------------------------------------------
(* IntelligentRetriever: candidate generators.  A generator returns         *)
(* [raised, h, c, stats]: whether it raised, the heap with the              *)
(* similarity_score fields it wrote, the candidate references in order, and *)
(* the store's stats.                                                       *)

Outcome(raised, h, c, st) == [raised |-> raised, h |-> h, c |-> c, stats |-> st]

(* the stored objects, in dict order, that pass query.matches_memory *)
MatchingRefs(h, query) ==
    LET ids == SelectSeq(mem_order,
                   LAMBDA id : matches_memory(query, h[memories[id]], clock))
    IN  [i \in DOMAIN ids |-> memories[ids[i]]]

(* the mutant of SortedCandidates used by C27: candidates in dict order *)
UnsortedCandidates(h, refs, limit) == Take(refs, limit)

(* candidates.sort(key=similarity_score, reverse=True)[:limit] *)
SortedCandidates(h, refs, limit) ==
    Take(SortDesc([i \in DOMAIN refs |->
                      [k |-> h[refs[i]].similarity_score, v |-> refs[i]]]),
         limit)

WithScores(h, refs, Score(_)) ==
    [r \in DOMAIN h |->
        IF r \in Range(refs) THEN [h[r] EXCEPT !.similarity_score = Score(h[r])]
        ELSE h[r]]

(* the stats search leaves *)
SearchStats(st, h, results) ==
    [st EXCEPT !.total_retrievals = @ + 1,
               !.average_similarity =
                   IF results # <<>>
                   THEN SumSimilarity(h, results) \div Len(results)
                   ELSE @]

semantic_retrieval(h, st, query, emb_ok) ==
    IF ~embedding_manager
    THEN LET filters == build_filters(query)
             h1 == SearchScored(h, query.query_text, filters)
             results == SearchResults(h1, filters, query.max_results * 2)
             h2 == SearchAccessed(h1, results, clock)
         IN  Outcome(FALSE, h2, results, SearchStats(st, h2, results))
    ELSE IF ~emb_ok THEN Outcome(TRUE, h, <<>>, st)
    ELSE LET Similarity(m) == Cosine(Encode(query.query_text), m.embedding)
             refs == SelectSeq(MatchingRefs(h, query),
                        LAMBDA r : /\ h[r].embedding # NoEmbedding
                                   /\ Similarity(h[r]) >= query.similarity_threshold)
             h1 == WithScores(h, refs, Similarity)
         IN  Outcome(FALSE, h1, SortedCandidates(h1, refs, query.max_results * 2),
                     st)

contextual_retrieval(h, st, query) ==
    LET Score(m) == calculate_context_similarity(query.context, m.context)
        refs == SelectSeq(MatchingRefs(h, query),
                          LAMBDA r : Score(h[r]) > Tenths(3))
        h1 == WithScores(h, refs, Score)
    IN  Outcome(FALSE, h1, SortedCandidates(h1, refs, query.max_results * 2), st)

temporal_retrieval(h, st, query) ==
    LET Score(m) == TemporalScore(m, clock, 2 * DayMinutes)
        refs == MatchingRefs(h, query)
        h1 == WithScores(h, refs, Score)
    IN  Outcome(FALSE, h1, SortedCandidates(h1, refs, query.max_results * 2), st)

frequency_retrieval(h, st, query) ==
    LET Score(m) ==
            Min2(ONE, (m.access_count * (ONE \div 10)) \div AgeDays(m, clock))
        refs == MatchingRefs(h, query)
        h1 == WithScores(h, refs, Score)
    IN  Outcome(FALSE, h1, SortedCandidates(h1, refs, query.max_results * 2), st)

importance_retrieval(h, st, query) ==
    LET Score(m) == Tenths(m.importance)
        refs == MatchingRefs(h, query)
        h1 == WithScores(h, refs, Score)
    IN  Outcome(FALSE, h1, SortedCandidates(h1, refs, query.max_results * 2), st)

(* One loop of _hybrid_retrieval over a candidate list.  acc is             *)
(* [h, c]: the heap and the values of all_candidates in insertion order.    *)
(* The objects in all_candidates are the stored objects themselves, so the  *)
(* score read and the score written are the same field.                     *)
RECURSIVE HybridMerge(_, _, _)
HybridMerge(acc, cands, tenths) ==
    IF cands = <<>> THEN acc
    ELSE LET r == Head(cands)
             s == acc.h[r].similarity_score
             seen == \E i \in DOMAIN acc.c :
                        acc.h[acc.c[i]].memory_id = acc.h[r].memory_id
             h1 == [acc.h EXCEPT ![r].similarity_score =
                       IF seen THEN s + Weighted(s, tenths)
                       ELSE Weighted(s, tenths)]
         IN  HybridMerge([h |-> h1,
                          c |-> IF seen THEN acc.c ELSE Append(acc.c, r)],
                         Tail(cands), tenths)

hybrid_retrieval(h, st, query, emb_ok) ==
    LET sem == semantic_retrieval(h, st, query, emb_ok)
        ctx == contextual_retrieval(sem.h, sem.stats, query)
        tmp == temporal_retrieval(ctx.h, ctx.stats, query)
        a1 == HybridMerge([h |-> tmp.h, c |-> <<>>], sem.c, 4)
        a2 == HybridMerge(a1, ctx.c, 3)
        a3 == HybridMerge(a2, tmp.c, 3)
    IN  IF sem.raised THEN sem
        ELSE Outcome(FALSE, a3.h,
                     SortedCandidates(a3.h, a3.c, query.max_results * 2),
                     tmp.stats)

(* _collaborative_retrieval: nothing fills similar_users, so the first      *)
(* branch is the one that runs; the loop is here for a profile that has     *)
(* similar users.  Its embedding call is made for each matching item that   *)
(* has an embedding, and raises at the first of them when the service fails *)
collaborative_retrieval(h, st, query, user_profile, emb_ok) ==
    IF user_profile.similar_users = {}
    THEN semantic_retrieval(h, st, query, emb_ok)
    ELSE LET matching == MatchingRefs(h, query)
             Calls(m) == m.embedding # NoEmbedding /\ embedding_manager
             Score(m) ==
                 LET base == IF m.context.user \in user_profile.similar_users
                             THEN Tenths(8) ELSE 0
                 IN  IF Calls(m)
                     THEN Max2(base, Cosine(Encode(query.query_text),
                                            m.embedding) \div 2)
                     ELSE base
             calling == {i \in DOMAIN matching : Calls(h[matching[i]])}
             raised == ~emb_ok /\ calling # {}
             first == IF raised
                      THEN CHOOSE i \in calling : \A j \in calling : i <= j
                      ELSE Len(matching) + 1
             reached == SubSeq(matching, 1, first - 1)
             refs == SelectSeq(reached, LAMBDA r : Score(h[r]) > Tenths(1))
             h1 == WithScores(h, refs, Score)
         IN  Outcome(raised, h1,
                     SortedCandidates(h1, refs, query.max_results * 2), st)

(* _retrieve_candidates; adaptive is hybrid *)
retrieve_candidates(h, st, query, strategy, user_profile, emb_ok) ==
    CASE strategy = "semantic" -> semantic_retrieval(h, st, query, emb_ok)
      [] strategy = "contextual" -> contextual_retrieval(h, st, query)
      [] strategy = "temporal" -> temporal_retrieval(h, st, query)
      [] strategy = "frequency" -> frequency_retrieval(h, st, query)
      [] strategy = "importance" -> importance_retrieval(h, st, query)
      [] strategy = "hybrid" -> hybrid_retrieval(h, st, query, emb_ok)
      [] strategy = "adaptive" -> hybrid_retrieval(h, st, query, emb_ok)
      [] strategy = "collaborative" ->
             collaborative_retrieval(h, st, query, user_profile, emb_ok)
      [] OTHER -> semantic_retrieval(h, st, query, emb_ok)

----------------------------------------------------------------------------
(* IntelligentRetriever: ranking, diversity filter, learning, retrieve *)

FactorScores(h, r, candidates, query, user_profile, now) ==
    LET m == h[r]
    IN  [semantic_similarity |-> m.similarity_score,
         context_match |-> calculate_context_similarity(query.context, m.context),
         temporal_relevance |-> calculate_temporal_relevance(m, now),
         access_frequency |-> calculate_frequency_score(m, now),
         importance_score |-> Tenths(m.importance),
         user_preference |-> calculate_user_preference(m, user_profile),
         relationship_strength |->
             calculate_relationship_strength(m,
                 {h[candidates[i]].memory_id : i \in DOMAIN candidates}),
         content_freshness |-> calculate_freshness_score(m, now)]

RetrievalResult(r, f, strategy) ==
    [memory |-> r,
     total_score |-> calculate_total_score(f),
     factor_scores |-> f,
     retrieval_reason |-> determine_retrieval_reason(f),
     confidence |-> calculate_confidence(f, strategy),
     rank |-> 0]

(* _rank_and_score: results sorted by total score, ranks 1, 2, ... *)
rank_and_score(h, candidates, query, user_profile, strategy) ==
    LET results == [i \in DOMAIN candidates |->
                       RetrievalResult(candidates[i],
                           FactorScores(h, candidates[i], candidates, query,
                                        user_profile, clock),
                           strategy)]
        sorted == SortDesc([i \in DOMAIN results |->
                               [k |-> results[i].total_score, v |-> results[i]]])
    IN  [i \in DOMAIN sorted |-> [sorted[i] EXCEPT !.rank = i]]

(* the mutant of diversity_factor used by C15: diversity switched off *)
zero_diversity == 1 - 1

(* default_parameters.diversity_factor is 0.1, so the per-type cap applies *)
diversity_factor == 1

(* the loop of _apply_diversity_and_filtering from position i on *)
RECURSIVE DiversityLoop(_, _, _, _, _, _)
DiversityLoop(h, ranked, i, final, counts, query) ==
    IF i > Len(ranked) THEN final
    ELSE LET result == ranked[i]
             m == h[result.memory]
             max_per_type == Max2(1, query.max_results \div 3)
             skip == \/ \E j \in DOMAIN final :
                           h[final[j].memory].content_hash = m.content_hash
                     \/ (diversity_factor > 0
                         /\ Get(counts, m.memory_type, 0) >= max_per_type)
                     \/ result.confidence < Tenths(3)
             final1 == Append(final, result)
         IN  IF skip THEN DiversityLoop(h, ranked, i + 1, final, counts, query)
             ELSE IF Len(final1) >= query.max_results THEN final1
             ELSE DiversityLoop(h, ranked, i + 1, final1,
                                Put(counts, m.memory_type,
                                    Get(counts, m.memory_type, 0) + 1),
                                query)

apply_diversity_and_filtering(h, ranked, query) ==
    DiversityLoop(h, ranked, 1, <<>>, <<>>, query)

(* preferences[key] = min(1.0, preferences.get(key, 0.5) + step) *)
Raise(preferences, key, step) ==
    Put(preferences, key, Min2(ONE, Get(preferences, key, ONE \div 2) + step))

RECURSIVE RaiseTags(_, _)
RaiseTags(preferences, tags) ==
    IF tags = {} THEN preferences
    ELSE LET t == CHOOSE t \in tags : TRUE
         IN  RaiseTags(Raise(preferences, t, ONE \div 50), tags \ {t})

(* the two loops of _update_learning over the results, from position i on *)
RECURSIVE LearnTypes(_, _, _, _)
LearnTypes(content_preferences, h, results, i) ==
    IF i > Len(results) THEN content_preferences
    ELSE LearnTypes(Raise(content_preferences,
                          h[results[i].memory].memory_type, ONE \div 20),
                    h, results, i + 1)

RECURSIVE LearnTags(_, _, _, _)
LearnTags(preferences, h, results, i) ==
    IF i > Len(results) THEN preferences
    ELSE LearnTags(RaiseTags(preferences, h[results[i].memory].tags),
                   h, results, i + 1)

RECURSIVE SumField(_, _)
SumField(results, field) ==
    IF results = <<>> THEN 0
    ELSE Head(results)[field] + SumField(Tail(results), field)

(* the longest performance series kept, and what is kept of a longer one *)
MaxPerformance == 100

KeptPerformance == 50

LearnedProfiles(profiles, h, query, results, now) ==
    IF HasUser(query.context)
    THEN LET p0 == get_user_profile(profiles, query.context, now)
             p1 == [p0 EXCEPT
                      !.content_preferences = LearnTypes(@, h, results, 1),
                      !.preferences = LearnTags(@, h, results, 1),
                      !.last_updated = now]
         IN  Put(profiles, query.context.user, p1)
    ELSE profiles

LearnedHistory(history, query, results, strategy, now) ==
    Append(history,
           [timestamp |-> now, query |-> query.query_text,
            strategy |-> strategy, result_count |-> Len(results),
            avg_score |-> IF results # <<>>
                          THEN SumField(results, "total_score") \div Len(results)
                          ELSE 0])

(* a series that is never cut *)
UncutPerformance(performance, results, strategy) ==
    IF results = <<>> THEN performance
    ELSE Put(performance, strategy,
             Append(Get(performance, strategy, <<>>),
                    SumField(results, "confidence") \div Len(results)))

LearnedPerformance(performance, results, strategy) ==
    IF results = <<>> THEN performance
    ELSE LET series == Append(Get(performance, strategy, <<>>),
                              SumField(results, "confidence") \div Len(results))
         IN  Put(performance, strategy,
                 IF Len(series) > MaxPerformance
                 THEN SubSeq(series, Len(series) - KeptPerformance + 1,
                             Len(series))
                 ELSE series)

(* _update_learning, called with the results and the strategy the caller   *)
(* gives                                                                    *)
update_learning(query, results, strategy) ==
    /\ user_profiles' = LearnedProfiles(user_profiles, heap, query, results,
                                        clock)
    /\ retrieval_history' = LearnedHistory(retrieval_history, query, results,
                                           strategy, clock)
    /\ strategy_performance' = LearnedPerformance(strategy_performance, results,
                                                  strategy)
    /\ ret' = Returned("update_learning",
                       [query |-> query, results |-> results,
                        strategy |-> strategy], None, <<>>)
    /\ UNCHANGED <<clock, embedding_manager, tasks, heap, storeVars, query_cache,
                   cacheVars, predictorVars, loaderVars>>

(* the length of the TTL of the query cache, minutes *)
cache_ttl == 5

ResultItems(h, results) == [i \in DOMAIN results |-> h[results[i].memory]]

(* retrieve.  ret.result tells how the call ended: "failed" when an         *)
(* exception was caught and [] returned, "cached" for a cache hit,         *)
(* "computed" otherwise.  Each intermediate value of the pipeline is bound  *)
(* once, in the order the code computes it.                                 *)
retrieve(query, emb_ok) ==
    /\ IF CacheKeyRaises(query)
       THEN /\ ret' = Returned("retrieve", query, "failed", <<>>)
            /\ UNCHANGED <<heap, stats, retrieverVars>>
       ELSE \E cache_key \in {generate_cache_key(query)} :
            IF /\ cache_key \in DOMAIN query_cache
               /\ clock - query_cache[cache_key].time < cache_ttl
            THEN /\ ret' = Returned("retrieve", query, "cached",
                        ResultItems(heap, query_cache[cache_key].results))
                 /\ UNCHANGED <<heap, stats, retrieverVars>>
            ELSE \E profiles1 \in {ProfilesAfterGet(user_profiles, query.context,
                                                    clock)},
                    user_profile \in {get_user_profile(user_profiles,
                                                       query.context, clock)},
                    strategy \in {select_strategy(query)} :
                 \E cand \in {retrieve_candidates(heap, stats, query, strategy,
                                                  user_profile, emb_ok)} :
                 IF cand.raised
                 THEN /\ heap' = cand.h
                      /\ user_profiles' = profiles1
                      /\ ret' = Returned("retrieve", query, "failed", <<>>)
                      /\ UNCHANGED <<stats, retrieval_history,
                                     strategy_performance, query_cache>>
                 ELSE \E ranked \in {rank_and_score(cand.h, cand.c, query,
                                                    user_profile, strategy)} :
                      \E final \in {apply_diversity_and_filtering(cand.h, ranked,
                                                                  query)} :
                      \E qcache \in {Put(query_cache, cache_key,
                                         [results |-> final, time |-> clock])} :
                          /\ Len(retrieval_history) < MaxHistory
                          /\ cand.stats.total_retrievals <= MaxAccess
                          /\ \A r \in DOMAIN cand.h :
                                 cand.h[r].access_count <= MaxAccess
                          /\ heap' = Gc(cand.h, Roots(memories, qcache,
                                                      cache_memories))
                          /\ stats' = cand.stats
                          /\ user_profiles' =
                                 LearnedProfiles(profiles1, cand.h, query, final,
                                                 clock)
                          /\ retrieval_history' =
                                 LearnedHistory(retrieval_history, query, final,
                                                strategy, clock)
                          /\ strategy_performance' =
                                 LearnedPerformance(strategy_performance, final,
                                                    strategy)
                          /\ query_cache' = qcache
                          /\ ret' = Returned("retrieve", query, "computed",
                                             ResultItems(cand.h, final))
    /\ UNCHANGED <<clock, embedding_manager, tasks, memories, mem_order, memory_index,
                   context_index, embeddings, disk, cacheVars, predictorVars,
                   loaderVars>>

----------------------------------------------------------------------------
(* PreloadCache *)

(* PreloadCache.max_size of the modelled instance *)
max_size == 2

(* the mutant of OldestId used by C4: least accessed first *)
LeastAccessedId(order, times) ==
    LET i == CHOOSE i \in DOMAIN order :
                 /\ \A j \in DOMAIN order :
                       access_counts[order[i]] <= access_counts[order[j]]
                 /\ \A j \in 1..(i - 1) :
                       access_counts[order[j]] > access_counts[order[i]]
    IN  order[i]

(* min(self.load_times.keys(), key=...): the first key, in dict order, with *)
(* the smallest load time                                                   *)
OldestId(order, times) ==
    LET i == CHOOSE i \in DOMAIN order :
                 /\ \A j \in DOMAIN order : times[order[i]] <= times[order[j]]
                 /\ \A j \in 1..(i - 1) : times[order[j]] > times[order[i]]
    IN  order[i]

(* the key _evict_oldest pops from the three dicts, None for an empty cache *)
EvictOldest(order, times) ==
    IF order = <<>> THEN None ELSE OldestId(order, times)

(* the mutant of NeedsEviction used by C3: never evict *)
NeverEvict(n) == FALSE

(* add_memory's test before inserting *)
NeedsEviction(n) == n >= max_size

(* add_memory(memory) for the object at reference r; ret.result records the *)
(* key that _evict_oldest popped                                            *)
add_memory(r, h) ==
    LET id == h[r].memory_id
        evict == NeedsEviction(Cardinality(DOMAIN cache_memories))
        victim == IF evict THEN EvictOldest(cache_order, load_times) ELSE None
        mems1 == IF victim # None THEN Drop(cache_memories, victim)
                 ELSE cache_memories
        times1 == IF victim # None THEN Drop(load_times, victim) ELSE load_times
        counts1 == IF victim # None THEN Drop(access_counts, victim)
                   ELSE access_counts
        order1 == IF victim # None THEN RemoveFromSeq(cache_order, victim)
                  ELSE cache_order
        mems2 == Put(mems1, id, r)
    IN  /\ cache_memories' = mems2
        /\ load_times' = Put(times1, id, clock)
        /\ access_counts' = Put(counts1, id, 0)
        /\ cache_order' = IF id \in Range(order1) THEN order1
                          ELSE Append(order1, id)
        /\ heap' = Gc(h, Roots(memories, query_cache, mems2))
        /\ ret' = Returned("add_memory", id, victim, <<>>)
        /\ UNCHANGED hit_rate

(* a caller constructs a MemoryItem and adds it to the cache *)
add_new_memory(item) ==
    /\ FreeRefs(heap) # {}
    /\ add_memory(NewRef(heap), Put(heap, NewRef(heap), item))
    /\ UNCHANGED <<clock, embedding_manager, tasks, storeVars, retrieverVars,
                   predictorVars, loaderVars>>

(* get_memory *)
get_memory(id) ==
    /\ IF id \in DOMAIN cache_memories
       THEN /\ access_counts[id] < MaxAccess
            /\ access_counts' = [access_counts EXCEPT ![id] = @ + 1]
            /\ ret' = Returned("get_memory", id, "item",
                               <<heap[cache_memories[id]]>>)
       ELSE /\ ret' = Returned("get_memory", id, "None", <<>>)
            /\ UNCHANGED access_counts
    /\ UNCHANGED <<clock, embedding_manager, tasks, heap, storeVars, retrieverVars,
                   cache_memories, cache_order, load_times, hit_rate,
                   predictorVars, loaderVars>>

(* the values of a dict, in key order *)
Values(f, order) == [i \in DOMAIN order |-> f[order[i]]]

RECURSIVE SumSeq(_)
SumSeq(s) == IF s = <<>> THEN 0 ELSE Head(s) + SumSeq(Tail(s))

(* hits / max(1, total_accesses) *)
HitRate(counts, order) ==
    LET total_accesses == SumSeq(Values(counts, order))
        hits == Cardinality({k \in DOMAIN counts : counts[k] > 0})
    IN  (ONE * hits) \div Max2(1, total_accesses)

(* update_hit_rate *)
update_hit_rate ==
    /\ hit_rate' = HitRate(access_counts, cache_order)
    /\ ret' = Returned("update_hit_rate", None, None, <<>>)
    /\ UNCHANGED <<clock, embedding_manager, tasks, heap, storeVars, retrieverVars,
                   cache_memories, cache_order, load_times, access_counts,
                   predictorVars, loaderVars>>

(* the mutant of get_preloaded_memory used by C26: a miss is not counted *)
get_preloaded_uncounted(id) ==
    /\ metrics.cache_hits + metrics.cache_misses < MaxEvents
    /\ IF id \in DOMAIN cache_memories
       THEN /\ access_counts[id] < MaxAccess
            /\ access_counts' = [access_counts EXCEPT ![id] = @ + 1]
            /\ metrics' = [metrics EXCEPT !.cache_hits = @ + 1]
            /\ ret' = Returned("get_preloaded_memory", id, "item",
                               <<heap[cache_memories[id]]>>)
       ELSE /\ ret' = Returned("get_preloaded_memory", id, "None", <<>>)
            /\ UNCHANGED <<access_counts, metrics>>
    /\ UNCHANGED <<clock, embedding_manager, tasks, heap, storeVars, retrieverVars,
                   cache_memories, cache_order, load_times, hit_rate,
                   predictorVars, recent_accesses, predictions>>

(* PredictiveLoader.get_preloaded_memory: get_memory on the preload cache,  *)
(* then one of the two counters                                             *)
get_preloaded_memory(id) ==
    /\ metrics.cache_hits + metrics.cache_misses < MaxEvents
    /\ IF id \in DOMAIN cache_memories
       THEN /\ access_counts[id] < MaxAccess
            /\ access_counts' = [access_counts EXCEPT ![id] = @ + 1]
            /\ metrics' = [metrics EXCEPT !.cache_hits = @ + 1]
            /\ ret' = Returned("get_preloaded_memory", id, "item",
                               <<heap[cache_memories[id]]>>)
       ELSE /\ metrics' = [metrics EXCEPT !.cache_misses = @ + 1]
            /\ ret' = Returned("get_preloaded_memory", id, "None", <<>>)
            /\ UNCHANGED access_counts
    /\ UNCHANGED <<clock, embedding_manager, tasks, heap, storeVars, retrieverVars,
                   cache_memories, cache_order, load_times, hit_rate,
                   predictorVars, recent_accesses, predictions>>

----------------------------------------------------------------------------
(* MemoryPredictor: what it learns from an access event *)

(* the hour, the weekday and the month of a time; a month has 30 days *)
HourOf(t) == (t \div 60) % 24

WeekdayOf(t) == (t \div DayMinutes) % 7

MonthOf(t) == (t \div (30 * DayMinutes)) % 12

max_pattern_age_days == 30

sequence_window == 5

(* deque(maxlen=10) of PredictiveLoader.recent_accesses *)
recent_maxlen == 10

(* a Python str and a Python list: values of different types are never     *)
(* equal, whatever they hold                                               *)
PyStr(chars) == [type |-> "str", val |-> chars]

PyList(elems) == [type |-> "list", val |-> elems]

(* the characters of a memory id; the ids of this model have one character *)
Chars(id) == <<id>>

(* s[a:b] for 0 <= a *)
PySlice(s, a, b) == SubSeq(s, a + 1, Min2(b, Len(s)))

(* s[-n:] *)
LastN(s, n) == SubSeq(s, Max2(1, Len(s) - n + 1), Len(s))

RECURSIVE Flatten(_)
Flatten(ss) == IF ss = <<>> THEN <<>> ELSE Head(ss) \o Flatten(Tail(ss))

(* the keys of a defaultdict(int) that counts a list: first occurrences *)
RECURSIVE FirstOccurrences(_)
FirstOccurrences(s) ==
    IF s = <<>> THEN <<>>
    ELSE LET init == FirstOccurrences(SubSeq(s, 1, Len(s) - 1))
         IN  IF s[Len(s)] \in Range(init) THEN init
             ELSE Append(init, s[Len(s)])

CountOf(s, x) == Cardinality({i \in DOMAIN s : s[i] = x})

(* sorted(memory_counts.items(), key=count, reverse=True)[:n], ids only *)
TopIds(ids, n) ==
    LET keys == FirstOccurrences(ids)
    IN  Take(SortDesc([i \in DOMAIN keys |->
                          [k |-> CountOf(ids, keys[i]), v |-> keys[i]]]), n)

(* _get_context_key: the parts that "|".join puts together *)
get_context_key(context) ==
    LET Part(name, field) ==
            IF context[field] # None THEN <<<<name, context[field]>>>> ELSE <<>>
        key_parts == Part("project", "project") \o Part("user", "user")
                     \o Part("app", "application")
                     \o Part("env", "environment")
    IN  IF key_parts # <<>> THEN key_parts ELSE <<<<"default", None>>>>

(* a sequence that is never cut to the window *)
UncutSequence(p, user_id, memory_id) ==
    Append(Get(p.sequence_patterns, user_id, <<>>), memory_id)

(* _update_sequence_patterns: the new value of sequence_patterns[user_id] *)
update_sequence_patterns(p, user_id, memory_id) ==
    LET sequence == Append(Get(p.sequence_patterns, user_id, <<>>), memory_id)
    IN  IF Len(sequence) > sequence_window
        THEN LastN(sequence, sequence_window)
        ELSE sequence

(* _update_workflow_patterns: the new value of user_workflows[user_id] *)
update_workflow_patterns(p, user_id, memory_id, context) ==
    LET workflows == Get(p.user_workflows, user_id, <<>>)
        found == {i \in DOMAIN workflows :
                     /\ Len(workflows[i]) > 0
                     /\ workflows[i][Len(workflows[i])] = memory_id}
        first == CHOOSE i \in found : \A j \in found : i <= j
    IN  IF context.session = None THEN workflows
        ELSE IF found = {}
             THEN Append(workflows, <<memory_id>>)
             ELSE IF memory_id \notin Range(workflows[first])
                  THEN [workflows EXCEPT ![first] = Append(@, memory_id)]
                  ELSE workflows

(* the inner dict context_associations[key] after one more access *)
Associated(assoc, memory_id) ==
    [order |-> IF memory_id \in Range(assoc.order) THEN assoc.order
               ELSE Append(assoc.order, memory_id),
     count |-> Put(assoc.count, memory_id, Get(assoc.count, memory_id, 0) + 1)]

NoAssociations == [order |-> <<>>, count |-> <<>>]

(* learn_from_access: the tables p of the predictor after the call *)
learn_from_access(p, memory_id, context, timestamp, user_id) ==
    LET events == Append(Get(p.temporal_patterns, user_id, <<>>),
                         [t |-> timestamp, mid |-> memory_id])
        cutoff == clock - max_pattern_age_days * DayMinutes
        context_key == get_context_key(context)
    IN  [temporal_patterns |->
             Put(p.temporal_patterns, user_id,
                 SelectSeq(events, LAMBDA e : e.t > cutoff)),
         pattern_users |-> IF user_id \in DOMAIN p.temporal_patterns
                           THEN p.pattern_users
                           ELSE Append(p.pattern_users, user_id),
         context_associations |->
             Put(p.context_associations, context_key,
                 Associated(Get(p.context_associations, context_key,
                                NoAssociations), memory_id)),
         sequence_patterns |->
             Put(p.sequence_patterns, user_id,
                 update_sequence_patterns(p, user_id, memory_id)),
         user_workflows |->
             Put(p.user_workflows, user_id,
                 update_workflow_patterns(p, user_id, memory_id, context))]

(* the tables of the MemoryPredictor *)
Predictor ==
    [temporal_patterns |-> temporal_patterns,
     pattern_users |-> pattern_users,
     context_associations |-> context_associations,
     sequence_patterns |-> sequence_patterns,
     user_workflows |-> user_workflows]

(* the tables of the MemoryPredictor become p *)
Learn(p) ==
    /\ temporal_patterns' = p.temporal_patterns
    /\ pattern_users' = p.pattern_users
    /\ context_associations' = p.context_associations
    /\ sequence_patterns' = p.sequence_patterns
    /\ user_workflows' = p.user_workflows

----------------------------------------------------------------------------
(* MemoryPredictor: the prediction generators *)

(* MemoryPrediction; the id is f"{kind}_{of}_{int(time.time())}" and the    *)
(* validity window is given in hours                                        *)
MemoryPrediction(kind, of, ids, type, tier, score, context, hours) ==
    [prediction_id |-> [kind |-> kind, of |-> of, at |-> clock],
     predicted_memory_ids |-> ids,
     prediction_type |-> type,
     confidence |-> tier,
     confidence_score |-> score,
     context |-> context,
     predicted_at |-> clock,
     valid_until |-> clock + hours * 60]

(* _score_to_confidence *)
score_to_confidence(score) ==
    IF score >= Tenths(8) THEN "very_high"
    ELSE IF score >= Tenths(6) THEN "high"
    ELSE IF score >= Tenths(4) THEN "medium"
    ELSE IF score >= Tenths(2) THEN "low"
    ELSE "very_low"

(* MemoryPredictor._calculate_confidence: the tier of a related prediction *)
calculate_confidence_tier(memory_ids, context) ==
    IF Len(memory_ids) >= 3 /\ context.project # None THEN "high"
    ELSE IF Len(memory_ids) >= 2 THEN "medium"
    ELSE "low"

(* _calculate_confidence_score *)
calculate_confidence_score(memory_ids, patterns) ==
    LET base_score == Min2(Tenths(9), Len(memory_ids) * (ONE \div 5))
        counted == {mid \in Range(memory_ids) :
                       \E i \in DOMAIN patterns : patterns[i].mid = mid}
        total == Cardinality({i \in DOMAIN patterns :
                                 patterns[i].mid \in Range(memory_ids)})
        avg_frequency_tenth ==
            IF counted # {}
            THEN (ONE \div (10 * Cardinality(counted))) * total
            ELSE ONE \div 10
        frequency_bonus == Min2(Tenths(3), avg_frequency_tenth)
    IN  Min2(ONE, base_score + frequency_bonus)

(* _calculate_sequence_confidence *)
calculate_sequence_confidence(recent, next_items, pattern_length) ==
    LET base_score == (ONE \div Max2(1, pattern_length)) * Len(recent)
        exact_match_bonus == IF recent # <<>> THEN Tenths(2) ELSE 0
    IN  Min2(ONE, base_score + exact_match_bonus)

(* _predict_from_sequences: the loop variable `pattern` runs over the       *)
(* elements of sequence_patterns[user_id], which are memory ids, so         *)
(* len(pattern) and pattern[i:j] are the length and a slice of an id        *)
predict_from_sequences(p, user_id, recent, context) ==
    IF recent = <<>> \/ user_id \notin DOMAIN p.sequence_patterns THEN <<>>
    ELSE LET patterns == p.sequence_patterns[user_id]
             n == Len(recent)
             At(pattern, i) ==
                 LET next_items == PySlice(Chars(pattern), i + n, i + n + 3)
                 IN  IF /\ PyStr(PySlice(Chars(pattern), i, i + n))
                              = PyList(recent)
                        /\ next_items # <<>>
                     THEN <<MemoryPrediction("sequence", <<<<"user", user_id>>>>,
                                next_items, "next_memory",
                                score_to_confidence(
                                    calculate_sequence_confidence(
                                        recent, next_items,
                                        Len(Chars(pattern)))),
                                calculate_sequence_confidence(
                                    recent, next_items, Len(Chars(pattern))),
                                context, 2)>>
                     ELSE <<>>
             Of(pattern) ==
                 IF n >= 2
                 THEN Flatten([k \in 1..(Len(Chars(pattern)) - n + 1) |->
                                  At(pattern, k - 1)])
                 ELSE <<>>
         IN  Flatten([j \in DOMAIN patterns |-> Of(patterns[j])])

(* _predict_from_context *)
predict_from_context(p, context, user_id) ==
    LET context_key == get_context_key(context)
    IN  IF context_key \notin DOMAIN p.context_associations THEN <<>>
        ELSE LET assoc == p.context_associations[context_key]
                 memory_ids ==
                     Take(SortDesc([i \in DOMAIN assoc.order |->
                                       [k |-> assoc.count[assoc.order[i]],
                                        v |-> assoc.order[i]]]), 5)
                 sum == LET RECURSIVE Sum(_)
                            Sum(i) == IF i = 0 THEN 0
                                      ELSE assoc.count[memory_ids[i]]
                                           + Sum(i - 1)
                        IN  Sum(Len(memory_ids))
                 strength_tenth == (ONE \div (10 * Len(memory_ids))) * sum
             IN  IF memory_ids = <<>> THEN <<>>
                 ELSE <<MemoryPrediction("context", context_key, memory_ids,
                            "context_memories",
                            score_to_confidence(strength_tenth),
                            Min2(ONE, strength_tenth), context, 4)>>

(* the test both time-of-day generators apply to a recorded access *)
SimilarTime(t, now) ==
    /\ HourOf(t) - HourOf(now) <= 1
    /\ HourOf(now) - HourOf(t) <= 1
    /\ WeekdayOf(t) = WeekdayOf(now)

(* _predict_from_temporal_patterns *)
predict_from_temporal_patterns(p, user_id, context) ==
    IF user_id \notin DOMAIN p.temporal_patterns THEN <<>>
    ELSE LET events == p.temporal_patterns[user_id]
             similar == SelectSeq(events, LAMBDA e : SimilarTime(e.t, clock))
             temporal_memories == [i \in DOMAIN similar |-> similar[i].mid]
         IN  IF temporal_memories = <<>> THEN <<>>
             ELSE <<MemoryPrediction("temporal", <<<<"user", user_id>>>>,
                        TopIds(temporal_memories, 3), "temporal_memories",
                        "medium", (ONE \div 100) * 65, context, 3)>>

(* _predict_from_workflows *)
predict_from_workflows(p, user_id, context, recent) ==
    IF user_id \notin DOMAIN p.user_workflows THEN <<>>
    ELSE LET workflows == p.user_workflows[user_id]
             n == Len(recent)
             At(workflow, i) ==
                 LET next_steps == PySlice(workflow, i + n, i + n + 2)
                 IN  IF /\ PyList(PySlice(workflow, i, i + n)) = PyList(recent)
                        /\ next_steps # <<>>
                     THEN <<MemoryPrediction("workflow", <<<<"user", user_id>>>>,
                                next_steps, "workflow_memories", "high",
                                Tenths(8), context, 1)>>
                     ELSE <<>>
             Of(workflow) ==
                 IF n >= 2
                 THEN Flatten([k \in 1..(Len(workflow) - n + 1) |->
                                  At(workflow, k - 1)])
                 ELSE <<>>
         IN  Flatten([j \in DOMAIN workflows |-> Of(workflows[j])])

(* the set of ids a user's recorded events mention *)
AccessedIds(p, user_id) ==
    {p.temporal_patterns[user_id][i].mid : i \in DOMAIN p.temporal_patterns[user_id]}

(* _find_similar_users: Jaccard similarity > 0.3, the first three in the    *)
(* order of the dict                                                        *)
find_similar_users(p, user_id) ==
    IF user_id \notin DOMAIN p.temporal_patterns THEN <<>>
    ELSE LET Similar(other_user) ==
                 LET intersection == Cardinality(AccessedIds(p, user_id)
                                                 \cap AccessedIds(p, other_user))
                     union == Cardinality(AccessedIds(p, user_id)
                                          \cup AccessedIds(p, other_user))
                 IN  /\ other_user # user_id
                     /\ union > 0
                     /\ 10 * intersection > 3 * union
         IN  Take(SelectSeq(p.pattern_users, Similar), 3)

(* _predict_from_collaboration *)
predict_from_collaboration(p, user_id, context) ==
    LET similar_users == find_similar_users(p, user_id)
        recent_cutoff == clock - DayMinutes
        RecentOf(u) ==
            LET events == SelectSeq(p.temporal_patterns[u],
                                    LAMBDA e : e.t > recent_cutoff)
            IN  [i \in DOMAIN events |-> events[i].mid]
        collaborative_memories ==
            Flatten([k \in DOMAIN similar_users |-> RecentOf(similar_users[k])])
    IN  IF similar_users = <<>> \/ collaborative_memories = <<>> THEN <<>>
        ELSE <<MemoryPrediction("collaborative", <<<<"user", user_id>>>>,
                   TopIds(collaborative_memories, 3), "collaborative_memories",
                   "medium", (ONE \div 100) * 55, context, 6)>>

(* _find_related_memories: the ids accessed within an hour of an access of  *)
(* memory_id, the three most frequent                                       *)
find_related_memories(memory_id, patterns) ==
    LET targets == SelectSeq(patterns, LAMBDA e : e.mid = memory_id)
        Around(target_time) ==
            LET near == SelectSeq(patterns,
                            LAMBDA e : /\ e.mid # memory_id
                                       /\ e.t - target_time <= 60
                                       /\ target_time - e.t <= 60)
            IN  [i \in DOMAIN near |-> near[i].mid]
        related == Flatten([k \in DOMAIN targets |-> Around(targets[k].t)])
    IN  TopIds(related, 3)

(* predict_related_memories: one prediction for each user whose events      *)
(* relate other ids to memory_id                                            *)
predict_related_memories(p, memory_id, context) ==
    LET Of(user_id) ==
            LET related_ids ==
                    find_related_memories(memory_id, p.temporal_patterns[user_id])
            IN  IF related_ids = <<>> THEN <<>>
                ELSE <<MemoryPrediction("related", <<<<"memory", memory_id>>>>,
                           related_ids, "related_memories",
                           calculate_confidence_tier(related_ids, context),
                           calculate_confidence_score(related_ids,
                               p.temporal_patterns[user_id]),
                           context, 24)>>
    IN  Flatten([k \in DOMAIN p.pattern_users |-> Of(p.pattern_users[k])])

(* predict_seasonal_memories: an access at a similar time of the same       *)
(* weekday and in the same month is appended twice                          *)
predict_seasonal_memories(p, context, user_id) ==
    IF user_id \notin DOMAIN p.temporal_patterns THEN <<>>
    ELSE LET events == p.temporal_patterns[user_id]
             Of(e) == (IF SimilarTime(e.t, clock) THEN <<e.mid>> ELSE <<>>)
                      \o (IF MonthOf(e.t) = MonthOf(clock) THEN <<e.mid>>
                          ELSE <<>>)
             seasonal_memories == Flatten([i \in DOMAIN events |-> Of(events[i])])
         IN  IF seasonal_memories = <<>> THEN <<>>
             ELSE <<MemoryPrediction("seasonal", <<<<"user", user_id>>>>,
                        TopIds(seasonal_memories, 5), "seasonal_memories",
                        "medium", Tenths(6), context, 6)>>

----------------------------------------------------------------------------
(* MemoryPredictor: ranking, and the two prediction requests *)

(* the loop of _rank_predictions over the sorted list, from position i on *)
RECURSIVE UniquePredictions(_, _, _, _)
UniquePredictions(sorted, i, seen_memories, unique_predictions) ==
    IF i > Len(sorted) THEN unique_predictions
    ELSE LET memory_set == Range(sorted[i].predicted_memory_ids)
         IN  IF memory_set \cap seen_memories = {}
             THEN UniquePredictions(sorted, i + 1,
                      seen_memories \cup memory_set,
                      Append(unique_predictions, sorted[i]))
             ELSE UniquePredictions(sorted, i + 1, seen_memories,
                                    unique_predictions)

(* the sorted list with nothing removed *)
KeepEveryPrediction(sorted) == sorted

(* the part of _rank_predictions that removes the predictions whose ids     *)
(* were already claimed                                                     *)
RemoveClaimed(sorted) == UniquePredictions(sorted, 1, {}, <<>>)

(* _rank_predictions *)
rank_predictions(preds) ==
    RemoveClaimed(SortDesc([i \in DOMAIN preds |->
                               [k |-> preds[i].confidence_score,
                                v |-> preds[i]]]))

(* predictions[:10] of predict_next_memories *)
top_predictions == 10

(* the mutant of max_predictions used by C13: twice the limit *)
doubled_predictions == 2 * 20

(* PredictiveLoader.max_predictions *)
max_predictions == 20

(* the value predict_next_memories returns *)
NextMemories(p, context, user_id, recent) ==
    Take(rank_predictions(predict_from_sequences(p, user_id, recent, context)
                          \o predict_from_context(p, context, user_id)
                          \o predict_from_temporal_patterns(p, user_id, context)
                          \o predict_from_workflows(p, user_id, context, recent)
                          \o predict_from_collaboration(p, user_id, context)),
         top_predictions)

(* what a prediction request returned *)
ReturnedPredictions(op, arg, result, preds) ==
    [op |-> op, arg |-> arg, result |-> result, items |-> <<>>, at |-> clock,
     predictions |-> preds]

(* MemoryPredictor.predict_next_memories, called on the predictor *)
predict_next_memories(context, user_id, recent) ==
    /\ ret' = ReturnedPredictions("predict_next_memories",
                  [context |-> context, user_id |-> user_id, recent |-> recent],
                  "predictions", NextMemories(Predictor, context, user_id, recent))
    /\ UNCHANGED <<clock, embedding_manager, tasks, heap, storeVars, retrieverVars,
                   cacheVars, predictorVars, loaderVars>>

(* PredictiveLoader.record_access_event *)
record_access_event(memory_id, context) ==
    /\ IF context # NoContext /\ context.user # None
       THEN /\ recent_accesses' =
                   Put(recent_accesses, context.user,
                       LastN(Append(Get(recent_accesses, context.user, <<>>),
                                    memory_id), recent_maxlen))
            /\ Learn(learn_from_access(Predictor, memory_id, context, clock,
                                         context.user))
       ELSE UNCHANGED <<predictorVars, recent_accesses>>
    /\ ret' = Returned("record_access_event", memory_id, None, <<>>)
    /\ UNCHANGED <<clock, embedding_manager, tasks, heap, storeVars, retrieverVars,
                   cacheVars, predictions, metrics>>

(* PredictiveLoader.predict_needs; reading recent_accesses[user_id] creates *)
(* the user's deque                                                         *)
predict_needs(context) ==
    /\ IF context.user = None
       THEN /\ ret' = ReturnedPredictions("predict_needs", context,
                          "No user context provided", <<>>)
            /\ UNCHANGED loaderVars
       ELSE \E recent \in {Get(recent_accesses, context.user, <<>>)} :
            \E next \in {NextMemories(Predictor, context, context.user,
                                      recent)} :
            \E related \in
                {Flatten([k \in DOMAIN LastN(recent, 3) |->
                             predict_related_memories(Predictor,
                                                      LastN(recent, 3)[k],
                                                      context)])} :
            \E seasonal \in {predict_seasonal_memories(Predictor, context,
                                                       context.user)} :
            \E ranked \in {Take(rank_predictions(next \o related \o seasonal),
                                max_predictions)} :
                /\ Len(predictions) + Len(ranked) <= MaxStored
                /\ recent_accesses' = Put(recent_accesses, context.user, recent)
                /\ metrics' = [metrics EXCEPT
                                 !.total_predictions = @ + Len(ranked)]
                /\ predictions' = predictions \o ranked
                /\ ret' = ReturnedPredictions("predict_needs", context,
                              "predictions", ranked)
    /\ UNCHANGED <<clock, embedding_manager, tasks, heap, storeVars, retrieverVars,
                   cacheVars, predictorVars>>

----------------------------------------------------------------------------
(* PredictiveLoader: record_retrieval_event                                 *)

(* PredictiveLoader.preload_enabled *)
preload_enabled == TRUE

(* _check_prediction_accuracy: the number of stored, still valid            *)
(* predictions of which more than half of the ids were retrieved            *)
AccuratePredictions(preds, retrieved_ids) ==
    Cardinality({i \in DOMAIN preds :
        LET predicted_ids == Range(preds[i].predicted_memory_ids)
            intersection == predicted_ids \cap retrieved_ids
        IN  /\ clock < preds[i].valid_until
            /\ intersection # {}
            /\ 2 * Cardinality(intersection) > Cardinality(predicted_ids)})

(* _generate_predictions: the new value of PredictiveLoader.predictions *)
generate_predictions(p, recent, context, user_id) ==
    LET next == NextMemories(p, context, user_id, recent)
        related == Flatten([k \in DOMAIN LastN(recent, 2) |->
                               predict_related_memories(p, LastN(recent, 2)[k],
                                                        context)])
        seasonal == predict_seasonal_memories(p, context, user_id)
        ranked == rank_predictions(next \o related \o seasonal)
        valid_predictions == SelectSeq(ranked, LAMBDA q : clock < q.valid_until)
    IN  Take(valid_predictions, max_predictions)

(* nothing is preloaded *)
NoPreloadIds(preds) == SubSeq(<<>>, 1, Len(preds) - Len(preds))

(* the ids _preload_predicted_memories walks through: those of the ten      *)
(* predictions with the highest confidence_score, in order                  *)
PreloadIds(preds) ==
    LET top == Take(SortDesc([i \in DOMAIN preds |->
                                 [k |-> preds[i].confidence_score,
                                  v |-> preds[i]]]), 10)
    IN  Flatten([i \in DOMAIN top |-> top[i].predicted_memory_ids])

(* PreloadCache.add_memory on the dicts c of the cache, for the object at   *)
(* reference r                                                              *)
AddInto(c, id, r) ==
    LET evict == NeedsEviction(Cardinality(DOMAIN c.memories))
        victim == IF evict THEN EvictOldest(c.order, c.load_times) ELSE None
        mems1 == IF victim # None THEN Drop(c.memories, victim) ELSE c.memories
        times1 == IF victim # None THEN Drop(c.load_times, victim)
                  ELSE c.load_times
        counts1 == IF victim # None THEN Drop(c.access_counts, victim)
                   ELSE c.access_counts
        order1 == IF victim # None THEN RemoveFromSeq(c.order, victim)
                  ELSE c.order
    IN  [memories |-> Put(mems1, id, r),
         load_times |-> Put(times1, id, clock),
         access_counts |-> Put(counts1, id, 0),
         order |-> IF id \in Range(order1) THEN order1 ELSE Append(order1, id)]

(* the loop of _preload_predicted_memories: an id that is not in the cache  *)
(* is read with retrieve_memory, which counts an access of the stored       *)
(* object and saves it, and the object read is added to the cache           *)
RECURSIVE PreloadLoop(_, _, _)
PreloadLoop(st, ids, disk_ok) ==
    IF ids = <<>> THEN st
    ELSE LET memory_id == Head(ids)
         IN  IF \/ memory_id \in DOMAIN st.cache.memories
                \/ memory_id \notin DOMAIN memories
             THEN PreloadLoop(st, Tail(ids), disk_ok)
             ELSE LET r == memories[memory_id]
                  IN  PreloadLoop(
                          [h |-> [st.h EXCEPT ![r] = update_access(@, clock)],
                           disk |-> SaveToDisk(st.disk, memory_id, disk_ok),
                           cache |-> AddInto(st.cache, memory_id, r),
                           fetched |-> Append(st.fetched, memory_id),
                           bounded |-> st.bounded
                                       /\ st.h[r].access_count < MaxAccess],
                          Tail(ids), disk_ok)

(* _preload_predicted_memories for the stored predictions preds *)
preload_predicted_memories(preds, disk_ok) ==
    LET st == PreloadLoop([h |-> heap, disk |-> disk,
                           cache |-> [memories |-> cache_memories,
                                      load_times |-> load_times,
                                      access_counts |-> access_counts,
                                      order |-> cache_order],
                           fetched |-> <<>>, bounded |-> TRUE],
                          PreloadIds(preds), disk_ok)
    IN  /\ st.bounded
        /\ cache_memories' = st.cache.memories
        /\ load_times' = st.cache.load_times
        /\ access_counts' = st.cache.access_counts
        /\ cache_order' = st.cache.order
        /\ disk' = st.disk
        /\ heap' = Gc(st.h, Roots(memories, query_cache, st.cache.memories))

(* the loop of record_retrieval_event over the retrieved items: the deque  *)
(* of the user and the tables of the predictor                              *)
RECURSIVE RecordLoop(_, _, _, _)
RecordLoop(st, retrieved_memories, context, user_id) ==
    IF retrieved_memories = <<>> THEN st
    ELSE LET memory == Head(retrieved_memories)
         IN  RecordLoop(
                 [recent |-> LastN(Append(st.recent, memory.memory_id),
                                   recent_maxlen),
                  p |-> learn_from_access(st.p, memory.memory_id, context,
                                          clock, user_id)],
                 Tail(retrieved_memories), context, user_id)

(* PredictiveLoader.record_retrieval_event *)
record_retrieval_event(query, retrieved_memories, disk_ok) ==
    /\ IF query.context = NoContext \/ query.context.user = None
       THEN UNCHANGED <<heap, disk, cache_memories, cache_order, load_times,
                        access_counts, predictorVars, loaderVars>>
       ELSE \E user_id \in {query.context.user} :
            \E st \in {RecordLoop([recent |-> Get(recent_accesses, user_id,
                                                  <<>>),
                                   p |-> Predictor],
                                  retrieved_memories, query.context,
                                  user_id)} :
            \E generated \in {generate_predictions(st.p, st.recent,
                                                   query.context, user_id)} :
                /\ Learn(st.p)
                /\ recent_accesses' = Put(recent_accesses, user_id, st.recent)
                /\ metrics' = [metrics EXCEPT !.accurate_predictions =
                                 @ + AccuratePredictions(predictions,
                                        {retrieved_memories[i].memory_id :
                                            i \in DOMAIN retrieved_memories})]
                /\ predictions' = generated
                /\ IF preload_enabled
                   THEN preload_predicted_memories(generated, disk_ok)
                   ELSE UNCHANGED <<heap, disk, cache_memories, cache_order,
                                    load_times, access_counts>>
    /\ ret' = Returned("record_retrieval_event", query, None, retrieved_memories)
    /\ UNCHANGED <<clock, embedding_manager, tasks, memories, mem_order, memory_index,
                   context_index, embeddings, stats, retrieverVars, hit_rate>>

----------------------------------------------------------------------------
(* Initial state: the objects as their constructors leave them *)

InitCommon ==
    /\ clock = 0
    /\ heap = <<>>
    /\ memories = <<>>
    /\ mem_order = <<>>
    /\ memory_index = <<>>
    /\ context_index = <<>>
    /\ embeddings = <<>>
    /\ stats = [total_memories |-> 0, total_retrievals |-> 0,
                average_similarity |-> 0, last_cleanup |-> NoTime]
    /\ disk = {}
    /\ user_profiles = <<>>
    /\ retrieval_history = <<>>
    /\ strategy_performance = <<>>
    /\ query_cache = <<>>
    /\ cache_memories = <<>>
    /\ cache_order = <<>>
    /\ hit_rate = 0
    /\ load_times = <<>>
    /\ access_counts = <<>>
    /\ temporal_patterns = <<>>
    /\ pattern_users = <<>>
    /\ context_associations = <<>>
    /\ sequence_patterns = <<>>
    /\ user_workflows = <<>>
    /\ recent_accesses = <<>>
    /\ predictions = <<>>
    /\ metrics = [total_predictions |-> 0, accurate_predictions |-> 0,
                  cache_hits |-> 0, cache_misses |-> 0]
    /\ tasks = NoTasks
    /\ ret = Returned("init", None, None, <<>>)

----------------------------------------------------------------------------
(* SpecStore: the Item Store driven by its callers.  Items differ in tags   *)
(* and context, the fields the indexes are built from; m1 takes every       *)
(* combination, m2 is the fixed second member of the index sets.            *)

StoreIds == {"m1", "m2"}

StoreTagSets == {{}, {"t1"}, {"t2"}}

StoreContexts ==
    {MemoryContext("p1", "u1", None), MemoryContext("p2", None, None)}

StoreItem(id, ctx, tags) ==
    MemoryItem(id, "alpha", EmptyHash, "text", ctx, tags, 5, "public", NoTime,
               clock)

StoreOp ==
    \/ \E tags \in StoreTagSets, ctx \in StoreContexts \cup {NoContext} :
           store_memory(StoreItem("m1", ctx, tags), TRUE, TRUE)
    \/ store_memory(StoreItem("m2", MemoryContext("p1", "u1", None), {"t1"}),
                    TRUE, TRUE)

UpdateOp ==
    \E id \in StoreIds, ctx \in StoreContexts \cup {NoContext},
       tags \in StoreTagSets \cup {NoTags} :
        /\ id = "m2" => (ctx = NoContext /\ tags = NoTags)
        /\ update_memory(id, None, ctx, tags, NoImportance, TRUE, TRUE)

DeleteOp == \E id \in StoreIds : delete_memory(id, TRUE)

SearchOp ==
    \E t \in {NoTags, {"t1"}, {"t2"}} :
        search("alpha", [NoFilters EXCEPT !.tags = t], 10, TRUE)

InitStore == InitCommon /\ embedding_manager = FALSE

NextStore == StoreOp \/ UpdateOp \/ DeleteOp \/ SearchOp

SpecStore == InitStore /\ [][NextStore]_vars

----------------------------------------------------------------------------
(* Claims about the Item Store's indexes *)

StoredItem(id) == heap[memories[id]]

InIndex(index, key, id) == key \in DOMAIN index /\ id \in index[key]

AllTags == UNION StoreTagSets

AllContextKeys ==
    {<<"project", "p1">>, <<"project", "p2">>, <<"user", "u1">>}

(* C1: the secondary indexes agree exactly with the canonical map: id is in *)
(* memory_index[t] iff id is stored and t is one of its tags, and id is in  *)
(* context_index[key] iff id is stored and its context has that project or  *)
(* user.                                                                    *)
C1_IndexesAgreeWithMemories ==
    /\ DOMAIN memory_index \subseteq AllTags
    /\ DOMAIN context_index \subseteq AllContextKeys
    /\ \A id \in StoreIds :
        /\ \A t \in AllTags :
              InIndex(memory_index, t, id)
                  <=> (id \in DOMAIN memories /\ t \in StoredItem(id).tags)
        /\ \A key \in AllContextKeys :
              InIndex(context_index, key, id)
                  <=> (id \in DOMAIN memories /\ key \in ContextKeys(StoredItem(id)))

(* C10: in the state a successful delete_memory(id) leaves, id is in no set *)
(* of the tag index and no set of the context index; and a search never     *)
(* returns an item whose id is not stored.                                  *)
C10_DeleteLeavesNoTrace ==
    /\ (ret.op = "delete_memory" /\ ret.result = "True")
          => /\ \A t \in DOMAIN memory_index : ret.arg \notin memory_index[t]
             /\ \A key \in DOMAIN context_index : ret.arg \notin context_index[key]
    /\ ret.op = "search"
          => \A i \in DOMAIN ret.items : ret.items[i].memory_id \in DOMAIN memories

----------------------------------------------------------------------------
(* SpecCache: a PreloadCache driven directly by add_memory and get_memory   *)

CacheIds == {"m1", "m2", "m3", "m4"}

CacheAddOp ==
    \E id \in CacheIds :
        add_new_memory(MemoryItem(id, "alpha", EmptyHash, "text", NoContext, {},
                                  5, "public", NoTime, clock))

CacheGetOp == \E id \in CacheIds : get_memory(id)

CacheTickOp == \E d \in {4} : Tick(d)

InitCache == InitCommon /\ embedding_manager = FALSE

NextCache == CacheAddOp \/ CacheGetOp \/ CacheTickOp

SpecCache == InitCache /\ [][NextCache]_vars

CacheSize == Cardinality(DOMAIN cache_memories)

(* C3: the cache never holds more than max_size entries, and memories,      *)
(* load_times and access_counts have the same key set.                      *)
C3_CacheBoundedSameKeys ==
    /\ CacheSize <= max_size
    /\ DOMAIN load_times = DOMAIN cache_memories
    /\ DOMAIN access_counts = DOMAIN cache_memories

(* C3 witness: an add_memory into a full cache has just evicted an entry *)
C3_Witness ==
    /\ ret.op = "add_memory"
    /\ ret.result # None
    /\ CacheSize = max_size

(* C4: an add_memory of a new id into a cache holding max_size entries      *)
(* removes exactly one entry, one whose load time no other entry's load     *)
(* time is below, and inserts the new id; the cache then holds max_size     *)
(* entries.                                                                 *)
C4_EvictsOldestLoadTime ==
    [][(/\ ret'.op = "add_memory"
        /\ ret'.arg \notin DOMAIN cache_memories
        /\ CacheSize = max_size)
       => \E victim \in DOMAIN cache_memories :
             /\ \A k \in DOMAIN cache_memories :
                   load_times[victim] <= load_times[k]
             /\ DOMAIN cache_memories'
                   = (DOMAIN cache_memories \ {victim}) \cup {ret'.arg}
             /\ Cardinality(DOMAIN cache_memories') = max_size]_vars

(* C4 witness: an entry has just been evicted while an entry that was      *)
(* loaded later and never read stays cached                                 *)
C4_Witness ==
    /\ ret.op = "add_memory"
    /\ ret.result # None
    /\ CacheSize = max_size
    /\ \E k \in DOMAIN cache_memories :
          access_counts[k] = 0 /\ load_times[k] > 0 /\ k # ret.arg

----------------------------------------------------------------------------
(* SpecRetr: the Retrieval Engine over the Item Store, with and without an  *)
(* embedding manager.  Two items that differ in every ranked field, three   *)
(* queries: one with a supplied strategy and an importance keyword, one     *)
(* with the default strategy, one with an access-level filter.              *)

RetrIds == {"m1", "m2"}

RetrItem(id) ==
    IF id = "m1"
    THEN MemoryItem("m1", "alpha", EmptyHash, "text",
                    MemoryContext("p1", "u1", None), {"t1"}, 9, "public",
                    NoTime, clock)
    ELSE MemoryItem("m2", "beta", EmptyHash, "code",
                    MemoryContext("p2", "u1", None), {}, 7, "public",
                    NoTime, clock)

QuerySupplied ==
    MemoryQuery("important alpha", MemoryContext("p2", "u1", None), {}, {}, 10,
                ONE \div 2, 0, FALSE, NoRange, None,
                RetrievalStrategy("semantic"))

QueryDefault ==
    MemoryQuery("alpha", MemoryContext(None, "u1", None), {}, {}, 10,
                ONE \div 2, 0, FALSE, NoRange, None, NoStrategy)

QueryPrivate ==
    MemoryQuery("team alpha", NoContext, {}, {}, 10, ONE \div 2, 0, FALSE,
                NoRange, "private", RetrievalStrategy("collaborative"))

RetrQueries == {QuerySupplied, QueryDefault, QueryPrivate}

(* the callers of this model store under fresh ids, as the uuid4 default does *)
RetrStoreOp ==
    \E id \in RetrIds \ DOMAIN memories : store_memory(RetrItem(id), TRUE, TRUE)

RetrUpdateOp ==
    update_memory("m2", "alpha", NoContext, NoTags, NoImportance, TRUE, TRUE)

RetrDeleteOp == delete_memory("m1", TRUE)

RetrTickOp == \E d \in {3} : Tick(d)

(* the embedding call can fail only where there is an embedding manager *)
RetrieveOp ==
    \E query \in RetrQueries,
       emb_ok \in (IF embedding_manager THEN BOOLEAN ELSE {TRUE}) :
        retrieve(query, emb_ok)

InitRetr == InitCommon /\ embedding_manager \in BOOLEAN

NextRetr ==
    RetrStoreOp \/ RetrUpdateOp \/ RetrDeleteOp \/ RetrTickOp \/ RetrieveOp

SpecRetr == InitRetr /\ [][NextRetr]_vars

----------------------------------------------------------------------------
(* Claims about retrieve *)

IsRetrieve == ret.op = "retrieve"

LastEvent == retrieval_history[Len(retrieval_history)]

(* C2: the list retrieve returns never holds two items with the same        *)
(* content_hash.                                                            *)
C2_NoDuplicateHashes ==
    IsRetrieve =>
        \A i, j \in DOMAIN ret.items :
            i # j => ret.items[i].content_hash # ret.items[j].content_hash

ReturnedIds(r) == [i \in DOMAIN r.items |-> r.items[i].memory_id]

(* the ids of the items a cache entry refers to *)
EntryIds(entry, h) ==
    [i \in DOMAIN entry.results |-> h[entry.results[i].memory].memory_id]

(* the step is a call of retrieve: every operation but the passing of time  *)
(* writes ret                                                               *)
RetrieveStep == ret'.op = "retrieve" /\ clock' = clock

(* C5: a computed call records the ids it returns under the query's key,    *)
(* stamped with the time of the call; no other operation changes the ids an *)
(* entry records; a call less than cache_ttl after the entry's stamp        *)
(* returns the recorded ids in order; a call that repeats the previous call *)
(* less than cache_ttl later returns the same ids in the same order, and    *)
(* one that repeats it cache_ttl or more later is computed anew and leaves  *)
(* an entry stamped with the time of the call.                              *)
C5_RepeatWithinTtlSameResult ==
    [][/\ RetrieveStep =>
            LET query == ret'.arg
                key == generate_cache_key(query)
                fresh == /\ key \in DOMAIN query_cache
                         /\ clock - query_cache[key].time < cache_ttl
                repeated == ret.op = "retrieve" /\ ret.arg = query
                recorded == /\ key \in DOMAIN query_cache'
                            /\ query_cache'[key].time = clock
                            /\ EntryIds(query_cache'[key], heap') = ReturnedIds(ret')
            IN  /\ ret'.result = "computed" => recorded
                /\ fresh => ReturnedIds(ret') = EntryIds(query_cache[key], heap)
                /\ (repeated /\ clock - ret.at < cache_ttl)
                       => ReturnedIds(ret') = ReturnedIds(ret)
                /\ (repeated /\ clock - ret.at >= cache_ttl)
                       => (ret'.result = "computed" /\ recorded)
       /\ ~RetrieveStep =>
            \A key \in DOMAIN query_cache :
                /\ key \in DOMAIN query_cache'
                /\ EntryIds(query_cache'[key], heap')
                       = EntryIds(query_cache[key], heap)]_vars

(* C6: a computed retrieval of a query that supplies a strategy generates   *)
(* its candidates with that strategy; the one of a query that supplies      *)
(* none uses the strategy the keyword/project heuristic selects.            *)
C6_SuppliedStrategyUsed ==
    (IsRetrieve /\ ret.result = "computed") =>
        LastEvent.strategy = IF ret.arg.strategy.kind = "none"
                             THEN select_strategy(ret.arg)
                             ELSE ret.arg.strategy.value

(* C7: retrieve on a query that supplies no strategy does not fail: its     *)
(* result is stored in query_cache and, when the query names a user, that   *)
(* user's profile holds a preference for the type of every returned item.   *)
C7_DefaultStrategyRuns ==
    (IsRetrieve /\ ret.arg.strategy.kind = "none") =>
        /\ ret.result # "failed"
        /\ generate_cache_key(ret.arg) \in DOMAIN query_cache
        /\ HasUser(ret.arg.context) =>
              /\ ret.arg.context.user \in DOMAIN user_profiles
              /\ \A i \in DOMAIN ret.items :
                    ret.items[i].memory_type \in
                        DOMAIN user_profiles[ret.arg.context.user].content_preferences

(* C8: the items a retrieval computed under the Importance strategy         *)
(* returns are in non-increasing order of importance.                       *)
C8_ImportanceOrder ==
    (IsRetrieve /\ ret.result = "computed" /\ LastEvent.strategy = "importance") =>
        \A i, j \in DOMAIN ret.items :
            i < j => ret.items[i].importance >= ret.items[j].importance

(* the score threshold of the generator a strategy runs, for a stored item *)
PassesStrategyThreshold(query, m, strategy) ==
    CASE strategy \in {"semantic", "collaborative"} ->
             IF embedding_manager
             THEN /\ m.embedding # NoEmbedding
                  /\ Cosine(Encode(query.query_text), m.embedding)
                         >= query.similarity_threshold
             ELSE TextSimilarity(query.query_text, m.content) > Tenths(1)
      [] strategy = "contextual" ->
             calculate_context_similarity(query.context, m.context) > Tenths(3)
      [] OTHER -> TRUE

(* C9: every item retrieve returns passes the hard filters of the query     *)
(* (expiry, type, tags, importance floor, time range, access level); and a  *)
(* stored item that passes them and the score threshold of the strategy     *)
(* that ran, and that neither the confidence floor, the duplicate check,    *)
(* the per-type cap nor max_results displaces, is among the items a         *)
(* computed retrieval returns.                                              *)
C9_HardFiltersOnly ==
    IsRetrieve =>
        /\ \A i \in DOMAIN ret.items :
               matches_memory(ret.arg, ret.items[i], ret.at)
        /\ ret.result = "computed" =>
             \A id \in DOMAIN memories :
                LET m == heap[memories[id]]
                    max_per_type == Max2(1, ret.arg.max_results \div 3)
                IN  (/\ matches_memory(ret.arg, m, ret.at)
                     /\ PassesStrategyThreshold(ret.arg, m, LastEvent.strategy)
                     /\ m.importance >= 3
                     /\ Len(ret.items) < ret.arg.max_results
                     /\ \A i \in DOMAIN ret.items :
                            ret.items[i].content_hash # m.content_hash
                     /\ Cardinality({i \in DOMAIN ret.items :
                                        ret.items[i].memory_type = m.memory_type})
                            < max_per_type)
                    => \E i \in DOMAIN ret.items : ret.items[i].memory_id = id

----------------------------------------------------------------------------
(* SpecPred: the Pattern Predictor and the loader's prediction requests,    *)
(* driven by two users who access three items.  u1 works in a project and   *)
(* a session, u2 gives neither.  The predictions a request stores are read  *)
(* only by record_retrieval_event, so a run goes on until the first request *)
(* that stores one.                                                         *)

PredUsers == {"u1", "u2"}

PredIds == {"A", "B", "C"}

PredContext(u) ==
    IF u = "u1" THEN MemoryContext("p1", "u1", "s1")
    ELSE MemoryContext(None, u, None)

PredRecents == {<<"A", "B">>}

(* the number of access events recorded so far *)
RecordedEvents ==
    LET RECURSIVE Total(_)
        Total(keys) ==
            IF keys = {} THEN 0
            ELSE LET key == CHOOSE key \in keys : TRUE
                     count == context_associations[key].count
                     RECURSIVE Sum(_)
                     Sum(ids) == IF ids = {} THEN 0
                                 ELSE LET id == CHOOSE id \in ids : TRUE
                                      IN  count[id] + Sum(ids \ {id})
                 IN  Sum(DOMAIN count) + Total(keys \ {key})
    IN  Total(DOMAIN context_associations)

PredAccessOp ==
    \E u \in PredUsers, id \in PredIds :
        /\ predictions = <<>>
        /\ RecordedEvents < MaxEvents
        /\ record_access_event(id, PredContext(u))

PredictNextOp ==
    \E u \in PredUsers, recent \in PredRecents :
        /\ predictions = <<>>
        /\ predict_next_memories(PredContext(u), u, recent)

PredictNeedsOp ==
    \E context \in {PredContext("u1"), PredContext("u2"),
                    MemoryContext("p1", None, None)} :
        /\ predictions = <<>>
        /\ predict_needs(context)

(* an hour and a minute pass: the next accesses are no longer "within an    *)
(* hour" of the earlier ones                                                *)
PredTickOp ==
    /\ predictions = <<>>
    /\ clock + 61 <= MaxHours * 61
    /\ clock' = clock + 61
    /\ UNCHANGED <<embedding_manager, tasks, heap, storeVars, retrieverVars, cacheVars,
                   predictorVars, loaderVars, ret>>

(* _rank_and_score applied to one candidate whose importance and            *)
(* similarity_score lie below, inside and above [0,1]                       *)
RankedItem(importance, similarity) ==
    [MemoryItem("A", "alpha", EmptyHash, "text", PredContext("u1"), {},
                importance, "public", NoTime, clock)
        EXCEPT !.similarity_score = similarity]

RankInputs ==
    {[importance |-> 0 - 5, similarity |-> 0 - (ONE \div 2)],
     [importance |-> 8, similarity |-> Tenths(8)],
     [importance |-> 15, similarity |-> 3 * (ONE \div 2)]}

RankOp ==
    \E in \in RankInputs, strategy \in {"importance", "hybrid"} :
        /\ predictions = <<>>
        /\ ret' = [op |-> "rank_and_score", arg |-> in, result |-> strategy,
                   items |-> <<>>, at |-> clock,
                   results |->
                       rank_and_score(
                           <<RankedItem(in.importance, in.similarity)>>, <<1>>,
                           MemoryQuery("alpha", PredContext("u1"), {}, {}, 10,
                                       ONE \div 2, 0, FALSE, NoRange, "public",
                                       NoStrategy),
                           UserProfile("u1", clock), strategy)]
        /\ UNCHANGED <<clock, embedding_manager, tasks, heap, storeVars, retrieverVars,
                       cacheVars, predictorVars, loaderVars>>

InitPred == InitCommon /\ embedding_manager = FALSE

NextPred ==
    PredAccessOp \/ PredictNextOp \/ PredictNeedsOp \/ PredTickOp \/ RankOp

SpecPred == InitPred /\ [][NextPred]_vars

----------------------------------------------------------------------------
(* SpecNeeds: one user reads item A; twenty more users each read A and an   *)
(* item of their own, one user after the other; the loader answers          *)
(* prediction requests of the first two of them and of a caller without a   *)
(* user.                                                                    *)

NeedsReader == "u1"

NeedsWorkers ==
    <<[user |-> "w1", id |-> "a"], [user |-> "w2", id |-> "b"],
      [user |-> "w3", id |-> "c"], [user |-> "w4", id |-> "d"],
      [user |-> "w5", id |-> "e"], [user |-> "w6", id |-> "f"],
      [user |-> "w7", id |-> "g"], [user |-> "w8", id |-> "h"],
      [user |-> "w9", id |-> "i"], [user |-> "w10", id |-> "j"],
      [user |-> "w11", id |-> "k"], [user |-> "w12", id |-> "l"],
      [user |-> "w13", id |-> "m"], [user |-> "w14", id |-> "n"],
      [user |-> "w15", id |-> "o"], [user |-> "w16", id |-> "p"],
      [user |-> "w17", id |-> "q"], [user |-> "w18", id |-> "r"],
      [user |-> "w19", id |-> "s"], [user |-> "w20", id |-> "t"]>>

NeedsWorkload ==
    <<[user |-> NeedsReader, id |-> "A"]>>
    \o Flatten([i \in DOMAIN NeedsWorkers |->
                   <<[user |-> NeedsWorkers[i].user, id |-> "A"],
                     NeedsWorkers[i]>>])

NeedsAccessOp ==
    /\ predictions = <<>>
    /\ RecordedEvents < Len(NeedsWorkload)
    /\ \E e \in {NeedsWorkload[RecordedEvents + 1]} :
           record_access_event(e.id, MemoryContext(None, e.user, None))

NeedsPredictOp ==
    \E u \in {NeedsReader, NeedsWorkers[1].user, None} :
        /\ predictions = <<>>
        /\ predict_needs(MemoryContext(None, u, None))

NeedsNextOp ==
    /\ predictions = <<>>
    /\ predict_next_memories(MemoryContext(None, NeedsReader, None),
                             NeedsReader, <<"A", "a">>)

InitNeeds == InitCommon /\ embedding_manager = FALSE

NextNeeds == NeedsAccessOp \/ NeedsPredictOp \/ NeedsNextOp

SpecNeeds == InitNeeds /\ [][NextNeeds]_vars

----------------------------------------------------------------------------
(* Claims about the Pattern Predictor *)

IsPrediction == ret.op \in {"predict_next_memories", "predict_needs"}

(* the positions at which `recent` occurs in `sequence` with something      *)
(* after it                                                                 *)
MatchPositions(sequence, recent) ==
    {i \in 1..(Len(sequence) - Len(recent)) :
        SubSeq(sequence, i, i + Len(recent) - 1) = recent}

(* C11: when predict_next_memories is called with a recent-access list of   *)
(* at least two ids that matches a contiguous part of the user's stored     *)
(* sequence, it returns a NEXT_MEMORY prediction that holds the ids which   *)
(* follow the match (up to 3); after A, B, C and recent = [A, B] the        *)
(* prediction holds C.                                                      *)
C11_SequencePredictsNext ==
    (/\ ret.op = "predict_next_memories"
     /\ Len(ret.arg.recent) >= 2
     /\ ret.arg.user_id \in DOMAIN sequence_patterns)
    => \A i \in MatchPositions(sequence_patterns[ret.arg.user_id],
                               ret.arg.recent) :
          \E k \in DOMAIN ret.predictions :
             /\ ret.predictions[k].prediction_type = "next_memory"
             /\ sequence_patterns[ret.arg.user_id][i + Len(ret.arg.recent)]
                    \in Range(ret.predictions[k].predicted_memory_ids)

(* C12: the list one prediction request returns is sorted by non-increasing *)
(* confidence_score, and no two of its predictions share a memory id.       *)
C12_RankedAndDisjoint ==
    IsPrediction
    => /\ \A i \in 1..(Len(ret.predictions) - 1) :
             ret.predictions[i].confidence_score
                 >= ret.predictions[i + 1].confidence_score
       /\ \A i, j \in DOMAIN ret.predictions :
             i # j => Range(ret.predictions[i].predicted_memory_ids)
                      \cap Range(ret.predictions[j].predicted_memory_ids) = {}

(* a request returned two predictions of different confidence and dropped   *)
(* the context prediction, whose ids were already claimed                   *)
C12_Witness ==
    /\ ret.op = "predict_needs"
    /\ Len(ret.predictions) >= 2
    /\ ret.predictions[1].confidence_score > ret.predictions[2].confidence_score
    /\ \E p \in Range(predict_from_context(Predictor, ret.arg, ret.arg.user)) :
          p \notin Range(ret.predictions)

(* C13 as stated: a prediction request, predict_next_memories or            *)
(* predict_needs, returns at most 10 predictions.                           *)
C13_AtMostTenPredictions ==
    IsPrediction => Len(ret.predictions) <= 10

(* C13 amended: predict_next_memories returns at most 10 predictions and    *)
(* predict_needs returns at most max_predictions = 20.                      *)
C13_AtMostTenOrTwenty ==
    /\ ret.op = "predict_next_memories" => Len(ret.predictions) <= 10
    /\ ret.op = "predict_needs" => Len(ret.predictions) <= 20

(* predict_needs had 21 disjoint predictions to return and returned 20 *)
C13_Witness ==
    /\ ret.op = "predict_needs"
    /\ Len(ret.predictions) = 20
    /\ Len(pattern_users) = 21
    /\ ret.predictions[20].prediction_type = "related_memories"

----------------------------------------------------------------------------
(* SpecDiv: retrievals over three stored items, two of type text and a      *)
(* third of type text or code, with result limits of 2 and 6 (one and two   *)
(* items of a type).                                                        *)

DivIds == {"d1", "d2", "d3"}

DivItem(id, memory_type) ==
    MemoryItem(id,
               CASE id = "d1" -> "alpha" [] id = "d2" -> "beta"
                 [] OTHER -> "gamma",
               EmptyHash, memory_type, MemoryContext("p1", "u1", None), {},
               CASE id = "d1" -> 9 [] id = "d2" -> 8 [] OTHER -> 7,
               "public", NoTime, clock)

DivQuery(max_results) ==
    MemoryQuery("important alpha", MemoryContext("p1", "u1", None), {}, {},
                max_results, ONE \div 2, 0, FALSE, NoRange, None,
                RetrievalStrategy("importance"))

DivStoreOp ==
    \E id \in DivIds \ DOMAIN memories,
       memory_type \in {"text", "code"} :
        /\ id # "d3" => memory_type = "text"
        /\ store_memory(DivItem(id, memory_type), TRUE, TRUE)

DivRetrieveOp == \E max_results \in {2, 6} : retrieve(DivQuery(max_results), TRUE)

InitDiv == InitCommon /\ embedding_manager = FALSE

NextDiv == DivStoreOp \/ DivRetrieveOp

SpecDiv == InitDiv /\ [][NextDiv]_vars

(* the number of returned items of one memory type *)
ReturnedOfType(memory_type) ==
    Cardinality({i \in DOMAIN ret.items : ret.items[i].memory_type = memory_type})

(* C15: with the diversity parameter non-zero, retrieve returns at most     *)
(* max(1, max_results // 3) items of any one memory type and at most        *)
(* max_results items in total.                                              *)
C15_DiversityCap ==
    ret.op = "retrieve"
    => /\ Len(ret.items) <= ret.arg.max_results
       /\ \A i \in DOMAIN ret.items :
             ReturnedOfType(ret.items[i].memory_type)
                 <= Max2(1, ret.arg.max_results \div 3)

(* three items of type text matched a query with max_results = 6 and two    *)
(* of them were returned                                                    *)
C15_Witness ==
    /\ ret.op = "retrieve"
    /\ ret.result = "computed"
    /\ ret.arg.max_results = 6
    /\ \A id \in DivIds : /\ id \in DOMAIN memories
                          /\ heap[memories[id]].memory_type = "text"
    /\ Len(ret.items) = 2
    /\ ReturnedOfType("text") = 2

----------------------------------------------------------------------------
(* SpecSel: _select_strategy applied to queries that differ in text,        *)
(* context, requested strategy, result limit and type filter.               *)

SelTexts ==
    {"alpha", "Alpha beta", "important alpha", "Recent key", "renewal",
     "shared", "team alpha", "urgent team"}

SelContexts ==
    {NoContext, MemoryContext(None, "u1", None), MemoryContext("p1", "u1", None)}

SelectOp ==
    \E text \in SelTexts, context \in SelContexts,
       strategy \in {NoStrategy, RetrievalStrategy("semantic")},
       max_results \in {5, 10}, memory_types \in {{}, {"text"}} :
        LET query == MemoryQuery(text, context, memory_types, {}, max_results,
                                 ONE \div 2, 0, FALSE, NoRange, None, strategy)
        IN  /\ ret' = Returned("select_strategy", query,
                               select_strategy(query), <<>>)
            /\ UNCHANGED <<clock, embedding_manager, tasks, heap, storeVars,
                           retrieverVars, cacheVars, predictorVars, loaderVars>>

InitSel == InitCommon /\ embedding_manager = FALSE

NextSel == SelectOp

SpecSel == InitSel /\ [][NextSel]_vars

(* some keyword of the set is a substring of the lower-cased query text *)
HasKeyword(query, words) == \E w \in words : Contains(query.query_text, w)

HasProject(query) == query.context # NoContext /\ query.context.project # None

(* C16: _select_strategy depends on the lower-cased query text and the      *)
(* context's project only: a temporal keyword gives Temporal; else an       *)
(* importance keyword gives Importance; else a collaboration keyword gives  *)
(* Collaborative; else a non-empty project gives Contextual; otherwise      *)
(* Hybrid.                                                                  *)
C16_StrategyPriority ==
    ret.op = "select_strategy"
    => LET query == ret.arg
           temporal == HasKeyword(query, temporal_words)
           importance == HasKeyword(query, importance_words)
           collab == HasKeyword(query, collab_words)
       IN  /\ temporal => ret.result = "temporal"
           /\ (~temporal /\ importance) => ret.result = "importance"
           /\ (~temporal /\ ~importance /\ collab)
                  => ret.result = "collaborative"
           /\ (~temporal /\ ~importance /\ ~collab /\ HasProject(query))
                  => ret.result = "contextual"
           /\ (~temporal /\ ~importance /\ ~collab /\ ~HasProject(query))
                  => ret.result = "hybrid"

(* a query with a temporal and an importance keyword, a project and a       *)
(* requested strategy was given Temporal                                    *)
C16_Witness ==
    /\ ret.op = "select_strategy"
    /\ ret.arg.query_text = "Recent key"
    /\ HasProject(ret.arg)
    /\ ret.arg.strategy = RetrievalStrategy("semantic")
    /\ ret.result = "temporal"

----------------------------------------------------------------------------
(* SpecHash: the Item Store written by store_memory, update_memory and      *)
(* import_memories and read back by retrieve_memory.  Items arrive with the *)
(* content_hash left empty or already filled in, as MemoryItem(...) and the *)
(* dicts of an import allow.                                                *)

HashIds == {"m1", "m2"}

HashContents == {"alpha", "beta"}

HashItem(id, content, content_hash) ==
    MemoryItem(id, content, content_hash, "text", NoContext, {}, 5, "public",
               NoTime, clock)

(* the lists an import is called with: items as export_memories wrote them  *)
(* or as an external source supplies them                                   *)
HashImports ==
    {<<HashItem("m1", c, h)>> : c \in HashContents, h \in {EmptyHash, Md5("alpha")}}
    \cup {<<HashItem("m1", "beta", EmptyHash), HashItem("m2", "alpha", EmptyHash)>>,
          <<HashItem("m2", "alpha", Md5("alpha")), HashItem("m2", "beta", EmptyHash)>>}

HashStoreOp ==
    \E id \in HashIds, content \in HashContents,
       content_hash \in {EmptyHash, Md5("alpha")} :
        /\ id = "m2" => content_hash = EmptyHash
        /\ store_memory(HashItem(id, content, content_hash), TRUE, TRUE)

HashUpdateOp ==
    \E id \in HashIds, content \in HashContents \cup {None} :
        update_memory(id, content, NoContext, NoTags, NoImportance, TRUE, TRUE)

HashImportOp ==
    \E memories_data \in HashImports,
       merge_strategy \in {"append", "overwrite", "skip_existing"} :
        import_memories(memories_data, merge_strategy, TRUE, TRUE)

HashReadOp == \E id \in HashIds : retrieve_memory(id, TRUE)

InitHash == InitCommon /\ embedding_manager = FALSE

NextHash == HashStoreOp \/ HashUpdateOp \/ HashImportOp \/ HashReadOp

SpecHash == InitHash /\ [][NextHash]_vars

(* C17: after any sequence of store_memory, update_memory and               *)
(* import_memories, every stored item's content_hash is the md5 of its      *)
(* current content, also for an item that was constructed or imported with  *)
(* a content_hash filled in; retrieve_memory(id) returns the stored         *)
(* content, and only those three operations change the content of an id.    *)
C17_HashOfCurrentContent ==
    [][/\ \A id \in DOMAIN memories' :
            StoredItem(id)'.content_hash = Md5(StoredItem(id)'.content)
       /\ (ret'.op = "retrieve_memory" /\ ret'.result = "item")
            => ret'.items[1].content = StoredItem(ret'.arg).content
       /\ ret'.op \notin {"store_memory", "update_memory", "import_memories"}
            => \A id \in DOMAIN memories \cap DOMAIN memories' :
                   StoredItem(id)'.content = StoredItem(id).content]_vars

----------------------------------------------------------------------------
(* SpecMiss: the Item Store with an embedding manager, called with ids that *)
(* are stored and with ids that are not ("m3" never is)                     *)

MissStored == {"m1", "m2"}

MissIds == MissStored \cup {"m3"}

MissItem(id, content) ==
    MemoryItem(id, content, EmptyHash, "text", MemoryContext("p1", "u1", None),
               {"t1"}, 5, "public", NoTime, clock)

MissStoreOp ==
    \E id \in MissStored, content \in {"alpha", "beta"} :
        store_memory(MissItem(id, content), TRUE, TRUE)

MissReadOp == \E id \in MissIds : retrieve_memory(id, TRUE)

MissUpdateOp ==
    \E id \in MissIds, content \in {None, "beta"}, tags \in {NoTags, {"t2"}} :
        update_memory(id, content, NoContext, tags, NoImportance, TRUE, TRUE)

MissDeleteOp == \E id \in MissIds : delete_memory(id, TRUE)

InitMiss == InitCommon /\ embedding_manager = TRUE

NextMiss == MissStoreOp \/ MissReadOp \/ MissUpdateOp \/ MissDeleteOp

SpecMiss == InitMiss /\ [][NextMiss]_vars

(* the sentinel each operation returns for an id that is not stored *)
NotFound(op) == IF op = "retrieve_memory" THEN "None" ELSE "False"

(* C18: retrieve_memory, update_memory and delete_memory called with an id  *)
(* that is not in the store return None, False and False without raising,   *)
(* and leave memories, the stored items, both indexes, embeddings and stats *)
(* unchanged.                                                               *)
C18_NotFoundLeavesStore ==
    [][(/\ ret'.op \in {"retrieve_memory", "update_memory", "delete_memory"}
        /\ ret'.arg \notin DOMAIN memories)
       => /\ ret'.result = NotFound(ret'.op)
          /\ UNCHANGED <<memories, heap, memory_index, context_index,
                         embeddings, stats>>]_vars

(* retrieve_memory of the id that was never stored returned None from a     *)
(* store that holds an item, its index entries and its embedding            *)
C18_Witness ==
    /\ ret.op = "retrieve_memory"
    /\ ret.arg = "m3"
    /\ ret.result = "None"
    /\ memories # <<>>
    /\ memory_index # <<>>
    /\ context_index # <<>>
    /\ embeddings # <<>>

----------------------------------------------------------------------------
(* SpecEmpty: store_memory called with items whose content is empty or not, *)
(* on a store with or without an embedding manager                          *)

EmptyIds == {"m1", "m2"}

EmptyItem(id, content, tags) ==
    MemoryItem(id, content, EmptyHash, "text", MemoryContext("p1", "u1", None),
               tags, 5, "public", NoTime, clock)

EmptyStoreOp ==
    \E id \in EmptyIds, content \in {"", "alpha"}, tags \in {{}, {"t1"}},
       emb_ok \in (IF embedding_manager THEN BOOLEAN ELSE {TRUE}) :
        store_memory(EmptyItem(id, content, tags), emb_ok, TRUE)

EmptyUpdateOp ==
    \E id \in EmptyIds, content \in {None, "beta"} :
        update_memory(id, content, NoContext, NoTags, NoImportance, TRUE, TRUE)

EmptyDeleteOp == \E id \in EmptyIds : delete_memory(id, TRUE)

EmptyReadOp == \E id \in EmptyIds : retrieve_memory(id, TRUE)

InitEmpty == InitCommon /\ embedding_manager \in BOOLEAN

NextEmpty == EmptyStoreOp \/ EmptyUpdateOp \/ EmptyDeleteOp \/ EmptyReadOp

SpecEmpty == InitEmpty /\ [][NextEmpty]_vars

(* C19: store_memory of an item whose content is empty fails, so a          *)
(* store_memory that returned an id stored an item with content; and a      *)
(* store_memory that failed left memories, the stored items, the indexes,   *)
(* embeddings and stats unchanged.                                          *)
C19_EmptyContentRejected ==
    [][ret'.op = "store_memory"
       => IF ret'.result = "raised"
          THEN UNCHANGED <<memories, heap, memory_index, context_index,
                           embeddings, stats>>
          ELSE heap'[memories'[ret'.arg]].content # ""]_vars

----------------------------------------------------------------------------
(* Claims about access tracking *)

ReadOps == {"retrieve_memory", "search", "retrieve"}

(* how many times the last operation returned the item with this id *)
TimesReturned(r, id) ==
    IF r.op \in ReadOps
    THEN Cardinality({i \in DOMAIN r.items : r.items[i].memory_id = id})
    ELSE 0

(* the ids whose item the last operation put into the store as a new object *)
Replaced(r) ==
    IF r.op = "store_memory" THEN {r.arg}
    ELSE IF r.op = "import_memories"
    THEN {r.arg.memories[i].memory_id : i \in DOMAIN r.arg.memories}
    ELSE {}

(* C20: every read that returns an item sets its last_accessed and adds one *)
(* to its access_count per returned item, for retrieve_memory, for search   *)
(* and for retrieve under every strategy; an operation that does not return *)
(* the item leaves its access_count unchanged.                              *)
C20_ReadsCountAccess ==
    [][\A id \in (DOMAIN memories \cap DOMAIN memories') \ Replaced(ret') :
          /\ StoredItem(id)'.access_count
                = StoredItem(id).access_count + TimesReturned(ret', id)
          /\ TimesReturned(ret', id) > 0
                => StoredItem(id)'.last_accessed = clock']_vars

----------------------------------------------------------------------------
(* Claims about failures of the collaborators *)

(* C21: a failing embedding call during a retrieval is absorbed by the      *)
(* fall-back to token-overlap similarity: a retrieve whose query has a      *)
(* usable strategy does not end in the caught exception with an empty list, *)
(* it returns what the path without an embedding manager computes.          *)
C21_EmbeddingFailureFallsBack ==
    (ret.op = "retrieve" /\ ~CacheKeyRaises(ret.arg))
        => ret.result \in {"computed", "cached"}

----------------------------------------------------------------------------
(* SpecDisk: the Item Store over a data directory whose writes and          *)
(* removals can fail at any call                                            *)

DiskIds == {"m1", "m2"}

DiskItem(id, tags) ==
    MemoryItem(id, "alpha", EmptyHash, "text", MemoryContext("p1", "u1", None),
               tags, 5, "public", NoTime, clock)

DiskStoreOp ==
    \E id \in DiskIds, tags \in {{}, {"t1"}}, disk_ok \in BOOLEAN :
        store_memory(DiskItem(id, tags), TRUE, disk_ok)

DiskUpdateOp ==
    \E id \in DiskIds, content \in {None, "beta"}, disk_ok \in BOOLEAN :
        update_memory(id, content, NoContext, NoTags, NoImportance, TRUE,
                      disk_ok)

DiskReadOp == \E id \in DiskIds, disk_ok \in BOOLEAN : retrieve_memory(id, disk_ok)

DiskDeleteOp == \E id \in DiskIds, disk_ok \in BOOLEAN : delete_memory(id, disk_ok)

InitDisk == InitCommon /\ embedding_manager = FALSE

NextDisk == DiskStoreOp \/ DiskUpdateOp \/ DiskReadOp \/ DiskDeleteOp

SpecDisk == InitDisk /\ [][NextDisk]_vars

(* C22: a failing disk write or file removal changes neither the result nor *)
(* the in-memory state of store_memory, update_memory, retrieve_memory and  *)
(* delete_memory: each returns what it returns when persistence succeeds    *)
(* (the id; True, the item, True for a stored id), a deleted id is gone,    *)
(* and stats['total_memories'] is the number of stored items.               *)
C22_PersistenceFailureNonFatal ==
    [][/\ stats'.total_memories = Cardinality(DOMAIN memories')
       /\ ret'.op = "store_memory"
             => (ret'.result = ret'.arg /\ ret'.arg \in DOMAIN memories')
       /\ ret'.op = "update_memory"
             => (ret'.result = "True" <=> ret'.arg \in DOMAIN memories)
       /\ ret'.op = "retrieve_memory"
             => (ret'.result = "item" <=> ret'.arg \in DOMAIN memories)
       /\ ret'.op = "delete_memory"
             => /\ ret'.result = "True" <=> ret'.arg \in DOMAIN memories
                /\ ret'.arg \notin DOMAIN memories']_vars

----------------------------------------------------------------------------
(* Claims about the learning hook *)

(* the step is a call of op: every call writes ret and leaves the clock,    *)
(* and the clock's own step leaves ret                                      *)
Called(op) == ret'.op = op /\ clock' = clock

(* C23: every call to retrieve appends exactly one event record to          *)
(* retrieval_history, whether the result was computed or served from the    *)
(* query cache and whether or not the result list is empty.                 *)
C23_EveryRetrieveRecorded ==
    [][Called("retrieve")
       => /\ Len(retrieval_history') = Len(retrieval_history) + 1
          /\ SubSeq(retrieval_history', 1, Len(retrieval_history))
                = retrieval_history
          /\ retrieval_history'[Len(retrieval_history')].query
                = ret'.arg.query_text]_vars

----------------------------------------------------------------------------
(* SpecLearn: retrievals by user u1 over two items of the same memory type  *)
(* that share a tag; the clock advances past the TTL of the query cache     *)

LearnIds == {"l1", "l2"}

LearnItem(id) ==
    MemoryItem(id, IF id = "l1" THEN "alpha" ELSE "beta", EmptyHash, "text",
               MemoryContext("p1", "u1", None),
               IF id = "l1" THEN {"t1"} ELSE {"t1", "t2"},
               IF id = "l1" THEN 9 ELSE 8, "public", NoTime, clock)

LearnQuery(max_results) ==
    MemoryQuery("important alpha", MemoryContext("p1", "u1", None), {}, {},
                max_results, ONE \div 2, 0, FALSE, NoRange, None,
                RetrievalStrategy("importance"))

LearnStoreOp ==
    \E id \in LearnIds \ DOMAIN memories : store_memory(LearnItem(id), TRUE, TRUE)

LearnRetrieveOp ==
    \E max_results \in {6, 9} : retrieve(LearnQuery(max_results), TRUE)

LearnTickOp == \E d \in {5} : Tick(d)

InitLearn == InitCommon /\ embedding_manager = FALSE

NextLearn == LearnStoreOp \/ LearnRetrieveOp \/ LearnTickOp

SpecLearn == InitLearn /\ [][NextLearn]_vars

(* a preference that is not in the dict yet starts from 0.5 *)
PreferenceOr(preferences, key) == Get(preferences, key, ONE \div 2)

(* the two preference dicts of a user, empty before the profile exists *)
PreferencesOf(profiles, user) ==
    IF user \in DOMAIN profiles
    THEN [types |-> profiles[user].content_preferences,
          tags |-> profiles[user].preferences]
    ELSE [types |-> <<>>, tags |-> <<>>]

(* C24: one retrieval by a user raises that user's preference for each      *)
(* memory type present in the results by 0.05 and for each tag present by   *)
(* 0.02, whatever the number of results that carry the type or tag; a       *)
(* preference starts from 0.5, never decreases and never exceeds 1.0.       *)
C24_OneNudgePerRetrieval ==
    [][/\ \A user \in DOMAIN user_profiles :
            LET old == PreferencesOf(user_profiles, user)
                new == PreferencesOf(user_profiles', user)
            IN  /\ \A t \in DOMAIN old.types :
                      t \in DOMAIN new.types /\ old.types[t] <= new.types[t]
                /\ \A g \in DOMAIN old.tags :
                      g \in DOMAIN new.tags /\ old.tags[g] <= new.tags[g]
       /\ \A user \in DOMAIN user_profiles' :
            LET new == PreferencesOf(user_profiles', user)
            IN  /\ \A t \in DOMAIN new.types : new.types[t] <= ONE
                /\ \A g \in DOMAIN new.tags : new.tags[g] <= ONE
       /\ (Called("retrieve") /\ ret'.result = "computed"
           /\ HasUser(ret'.arg.context))
          => LET old == PreferencesOf(user_profiles, ret'.arg.context.user)
                 new == PreferencesOf(user_profiles', ret'.arg.context.user)
                 items == ret'.items
             IN  /\ \A t \in {items[i].memory_type : i \in DOMAIN items} :
                       new.types[t]
                           = Min2(ONE, PreferenceOr(old.types, t) + ONE \div 20)
                 /\ \A g \in UNION {items[i].tags : i \in DOMAIN items} :
                       new.tags[g]
                           = Min2(ONE, PreferenceOr(old.tags, g) + ONE \div 50)]_vars

----------------------------------------------------------------------------
(* SpecHit: a PredictiveLoader's preload cache beside an Item Store: items  *)
(* are added to the cache and read from it directly and through             *)
(* get_preloaded_memory, and the hit rate is recomputed                     *)

HitIds == {"m1", "m2"}

HitItem(id) ==
    MemoryItem(id, "alpha", EmptyHash, "text", NoContext, {}, 5, "public",
               NoTime, clock)

HitStoreOp == store_memory(HitItem("m1"), TRUE, TRUE)

HitAddOp == \E id \in HitIds : add_new_memory(HitItem(id))

HitGetOp == \E id \in HitIds : get_memory(id)

HitPreloadedOp == \E id \in HitIds : get_preloaded_memory(id)

HitRateOp == update_hit_rate

InitHit == InitCommon /\ embedding_manager = FALSE

NextHit == HitStoreOp \/ HitAddOp \/ HitGetOp \/ HitPreloadedOp \/ HitRateOp

SpecHit == InitHit /\ [][NextHit]_vars

(* C25: after update_hit_rate, hit_rate is the number of cached entries     *)
(* with an access count above 0 divided by the number of cached entries,    *)
(* and 0 for an empty cache, whatever add_memory and get_memory calls came  *)
(* before.                                                                  *)
C25_HitRateIsFractionOfEntries ==
    ret.op = "update_hit_rate"
        => hit_rate
              = IF access_counts = <<>> THEN 0
                ELSE (ONE * Cardinality({k \in DOMAIN access_counts :
                                            access_counts[k] > 0}))
                         \div Cardinality(DOMAIN access_counts)

(* cache_hits + cache_misses *)
CountedCalls(m) == m.cache_hits + m.cache_misses

(* C26: get_preloaded_memory(id) for an id held in the preload cache        *)
(* returns the cached item, adds one to that entry's access count and       *)
(* changes no other entry; for an id not held it returns None and leaves    *)
(* the cache unchanged; the Item Store and the stored items are not         *)
(* modified; and cache_hits + cache_misses grows by one with each call and  *)
(* with nothing else, so it is the number of calls made.                    *)
C26_PreloadedReadFrame ==
    [][IF ret'.op = "get_preloaded_memory"
       THEN /\ IF ret'.arg \in DOMAIN cache_memories
               THEN /\ ret'.result = "item"
                    /\ ret'.items = <<heap[cache_memories[ret'.arg]]>>
                    /\ access_counts'
                          = [access_counts EXCEPT ![ret'.arg] = @ + 1]
               ELSE /\ ret'.result = "None"
                    /\ ret'.items = <<>>
                    /\ UNCHANGED access_counts
            /\ UNCHANGED <<cache_memories, cache_order, load_times, heap,
                           storeVars>>
            /\ CountedCalls(metrics') = CountedCalls(metrics) + 1
       ELSE CountedCalls(metrics') = CountedCalls(metrics)]_vars

(* a hit on a cached item after an earlier miss, beside a non-empty store *)
C26_Witness ==
    /\ ret.op = "get_preloaded_memory"
    /\ ret.result = "item"
    /\ access_counts[ret.arg] = 1
    /\ metrics.cache_hits = 1
    /\ metrics.cache_misses >= 1
    /\ memories # <<>>
    /\ Cardinality(DOMAIN cache_memories) = 2

----------------------------------------------------------------------------
(* SpecImp: retrievals under the Importance strategy over two items that    *)
(* are the same in every field but the id and the importance; the second    *)
(* item is stored with the same fingerprint as the first or with one of its *)
(* own, so that the duplicate filter lets one or both of them through.      *)
(* With importance 0.9 and 1.0 both total scores reach the cap of 1.0.      *)

ImpIds == {"i1", "i2"}

ImpLevels == {5, 9, 10}

ImpItem(id, importance, content_hash) ==
    MemoryItem(id, "alpha", content_hash, "text",
               MemoryContext("p1", "u1", None), {}, importance, "public",
               NoTime, clock)

ImpQuery(max_results) ==
    MemoryQuery("important alpha", MemoryContext("p1", "u1", None), {}, {},
                max_results, ONE \div 2, 0, FALSE, NoRange, None,
                RetrievalStrategy("importance"))

ImpStoreOp ==
    \E id \in ImpIds \ DOMAIN memories, importance \in ImpLevels,
       content_hash \in {EmptyHash, Md5("beta")} :
        /\ id = "i1" => content_hash = EmptyHash
        /\ \A other \in DOMAIN memories :
              StoredItem(other).importance # importance
        /\ store_memory(ImpItem(id, importance, content_hash), TRUE, TRUE)

ImpRetrieveOp == \E max_results \in {3, 6} : retrieve(ImpQuery(max_results), TRUE)

InitImp == InitCommon /\ embedding_manager = FALSE

NextImp == ImpStoreOp \/ ImpRetrieveOp

SpecImp == InitImp /\ [][NextImp]_vars

(* C27: for two stored items that are identical except in importance, a     *)
(* retrieval under the Importance strategy never puts the item of lower     *)
(* importance ahead of the one of higher importance, also when the total    *)
(* scores are capped at 1.0 and when the items have the same fingerprint.   *)
C27_HigherImportanceFirst ==
    ret.op = "retrieve"
        => /\ \A i, j \in DOMAIN ret.items :
                 i < j => ret.items[i].importance > ret.items[j].importance
           /\ \A id \in DOMAIN memories :
                 \A i \in DOMAIN ret.items :
                    (/\ ret.result = "computed"
                     /\ StoredItem(id).content_hash = ret.items[i].content_hash)
                        => StoredItem(id).importance <= ret.items[i].importance

(* both items were returned, the one stored second first, and both total    *)
(* scores are at the cap                                                    *)
C27_Witness ==
    /\ ret.op = "retrieve"
    /\ ret.result = "computed"
    /\ Len(ret.items) = 2
    /\ mem_order = <<ret.items[2].memory_id, ret.items[1].memory_id>>
    /\ ret.items[1].importance = 10
    /\ ret.items[2].importance = 9
    /\ \E key \in DOMAIN query_cache :
          /\ Len(query_cache[key].results) = 2
          /\ \A i \in 1..2 : query_cache[key].results[i].total_score = ONE

----------------------------------------------------------------------------
(* SpecHyb: retrievals that _select_strategy sends to Hybrid (no keyword,   *)
(* no project) over two items of user u1, with and without an embedding     *)
(* manager                                                                  *)

HybIds == {"h1", "h2"}

HybItem(id) ==
    MemoryItem(id, IF id = "h1" THEN "alpha" ELSE "Alpha beta", EmptyHash,
               "text", MemoryContext(None, "u1", None), {}, 5, "public", NoTime,
               clock)

HybQuery(max_results) ==
    MemoryQuery("alpha", MemoryContext(None, "u1", None), {}, {}, max_results,
                ONE \div 2, 0, FALSE, NoRange, None,
                RetrievalStrategy("hybrid"))

HybStoreOp ==
    \E id \in HybIds \ DOMAIN memories : store_memory(HybItem(id), TRUE, TRUE)

(* the embedding call can fail only where there is an embedding manager *)
HybRetrieveOp ==
    \E max_results \in {5, 10},
       emb_ok \in (IF embedding_manager THEN BOOLEAN ELSE {TRUE}) :
        retrieve(HybQuery(max_results), emb_ok)

HybTickOp == \E d \in {3} : Tick(d)

InitHyb == InitCommon /\ embedding_manager \in BOOLEAN

NextHyb == HybStoreOp \/ HybRetrieveOp \/ HybTickOp

SpecHyb == InitHyb /\ [][NextHyb]_vars

(* the score a candidate generator assigned to the object at r when it ran, *)
(* 0 when the object is not in the generator's candidate list               *)
AssignedScore(outcome, r) ==
    IF r \in Range(outcome.c) THEN outcome.h[r].similarity_score ELSE 0

(* C28: the Hybrid candidate score of an item is 0.4*s + 0.3*c + 0.3*t,     *)
(* where s, c and t are the scores the Semantic, Contextual and Temporal    *)
(* candidate generators assigned to that item, 0 for a generator that did   *)
(* not list it.                                                             *)
C28_HybridScoreIsWeightedSum ==
    [][(/\ Called("retrieve")
        /\ ret'.result = "computed"
        /\ select_strategy(ret'.arg) = "hybrid")
       => LET sem == semantic_retrieval(heap, stats, ret'.arg, TRUE)
              ctx == contextual_retrieval(sem.h, sem.stats, ret'.arg)
              tmp == temporal_retrieval(ctx.h, ctx.stats, ret'.arg)
          IN  \A r \in Range(sem.c) \cup Range(ctx.c) \cup Range(tmp.c) :
                 heap'[r].similarity_score
                    = Weighted(AssignedScore(sem, r), 4)
                      + Weighted(AssignedScore(ctx, r), 3)
                      + Weighted(AssignedScore(tmp, r), 3)]_vars

----------------------------------------------------------------------------
(* Claims about the workflows of a session                                  *)

(* SpecFlow: one user reads four items in two sessions and outside any      *)
(* session, and asks for predictions after having read s1 and s2. Each      *)
(* session works on a project of its own, so that the association table of  *)
(* the session's context key lists the session's items in the order of      *)
(* their first access.                                                      *)

FlowEvents == 4

FlowIds == {"s1", "s2", "s3", "s4"}

FlowContexts ==
    {MemoryContext("p1", "u1", "w1"), MemoryContext("p2", "u1", "w2"),
     MemoryContext(None, "u1", None)}

FlowRecent == <<"s1", "s2">>

FlowAccessOp ==
    \E id \in FlowIds, context \in FlowContexts :
        /\ RecordedEvents < FlowEvents
        /\ record_access_event(id, context)

FlowPredictNextOp ==
    \E context \in FlowContexts :
        /\ RecordedEvents > 0
        /\ predict_next_memories(context, "u1", FlowRecent)

(* _predict_from_workflows called on the predictor, as the test does *)
FlowPredictOp ==
    \E context \in FlowContexts :
        /\ RecordedEvents > 0
        /\ ret' = ReturnedPredictions("predict_from_workflows",
                      [context |-> context, user_id |-> "u1",
                       recent |-> FlowRecent],
                      "predictions",
                      predict_from_workflows(Predictor, "u1", context,
                                             FlowRecent))
        /\ UNCHANGED <<clock, embedding_manager, tasks, heap, storeVars,
                       retrieverVars, cacheVars, predictorVars, loaderVars>>

InitFlow == InitCommon /\ embedding_manager = FALSE

NextFlow == FlowAccessOp \/ FlowPredictNextOp \/ FlowPredictOp

SpecFlow == InitFlow /\ [][NextFlow]_vars

(* the items read in the session of a context, in the order of their first  *)
(* access                                                                   *)
SessionItems(context) ==
    Get(context_associations, get_context_key(context), NoAssociations).order

(* the sessions of a user in which something was read *)
SessionsOf(user_id) ==
    {context \in FlowContexts :
        /\ context.user = user_id
        /\ context.session # None
        /\ SessionItems(context) # <<>>}

(* C29: the workflows of a user are the sessions of the user: one sequence  *)
(* per session in which the user read something, holding the items read in  *)
(* that session once each in the order of their first access; reads outside *)
(* a session add nothing.                                                   *)
C29_OneWorkflowPerSession ==
    \A user_id \in DOMAIN user_workflows :
        /\ Range(user_workflows[user_id])
               = {SessionItems(context) : context \in SessionsOf(user_id)}
        /\ Len(user_workflows[user_id]) = Cardinality(SessionsOf(user_id))

(* C30: once s1, s2, s3, s4 were read in this order in one session, a       *)
(* workflow prediction request with the recent accesses s1, s2 returns a    *)
(* prediction of type workflow_memories, tier high, score 0.8, whose ids    *)
(* are s3, s4.                                                              *)
C30_WorkflowPredictsNextTwo ==
    (/\ ret.op = "predict_from_workflows"
     /\ \E context \in SessionsOf("u1") :
            SessionItems(context) = <<"s1", "s2", "s3", "s4">>)
        => \E i \in DOMAIN ret.predictions :
               /\ ret.predictions[i].prediction_type = "workflow_memories"
               /\ ret.predictions[i].confidence = "high"
               /\ ret.predictions[i].confidence_score = Tenths(8)
               /\ ret.predictions[i].predicted_memory_ids = <<"s3", "s4">>

----------------------------------------------------------------------------
(* Claims about the tables of the predictor                                 *)

(* SpecAge: two users' accesses are learned with the timestamp the caller   *)
(* gives (now, a day ago, or more than thirty days ago), sixteen days pass  *)
(* at a time, and predictions are asked for.                                *)

AgeEvents == 3

AgeTicks == 3

AgeUsers == {"u1", "u2"}

AgeIds == {"A", "B"}

AgeContext(u) == MemoryContext("p1", u, None)

(* MemoryPredictor.learn_from_access called on the predictor *)
AgeLearnOp ==
    \E u \in AgeUsers, id \in AgeIds,
       back \in {0, DayMinutes, (max_pattern_age_days + 1) * DayMinutes} :
        /\ RecordedEvents < AgeEvents
        /\ Learn(learn_from_access(Predictor, id, AgeContext(u),
                                   clock - back, u))
        /\ ret' = Returned("learn_from_access",
                           [memory_id |-> id, user_id |-> u,
                            timestamp |-> clock - back], None, <<>>)
        /\ UNCHANGED <<clock, embedding_manager, tasks, heap, storeVars,
                       retrieverVars, cacheVars, loaderVars>>

AgePredictOp ==
    \E u \in AgeUsers :
        /\ RecordedEvents > 0
        /\ predict_next_memories(AgeContext(u), u, <<"A", "B">>)

AgeTickOp ==
    /\ clock + 16 * DayMinutes <= AgeTicks * 16 * DayMinutes
    /\ clock' = clock + 16 * DayMinutes
    /\ UNCHANGED <<embedding_manager, tasks, heap, storeVars, retrieverVars, cacheVars,
                   predictorVars, loaderVars, ret>>

InitAge == InitCommon /\ embedding_manager = FALSE

NextAge == AgeLearnOp \/ AgePredictOp \/ AgeTickOp

SpecAge == InitAge /\ [][NextAge]_vars

(* C31: when a prediction is generated, every user's list of access events  *)
(* holds only events of the last max_pattern_age_days days, in              *)
(* non-decreasing order of their timestamps.                                *)
C31_EventsRecentAndOrdered ==
    ret.op = "predict_next_memories"
        => \A u \in DOMAIN temporal_patterns :
               LET events == temporal_patterns[u]
               IN  /\ \A i \in DOMAIN events :
                          events[i].t > ret.at - max_pattern_age_days * DayMinutes
                   /\ \A i, j \in DOMAIN events :
                          i < j => events[i].t <= events[j].t

(* SpecSeq: two users read two items in any order, long enough for the      *)
(* window of one of them to slide.                                          *)

SeqEvents == 7

SeqUsers == {"u1", "u2"}

SeqIds == {"A", "B"}

SeqAccessOp ==
    \E u \in SeqUsers, id \in SeqIds :
        /\ RecordedEvents < SeqEvents
        /\ record_access_event(id, MemoryContext("p1", u, None))

SeqPredictOp ==
    \E u \in SeqUsers :
        /\ RecordedEvents > 0
        /\ predict_next_memories(MemoryContext("p1", u, None), u, <<"A", "B">>)

InitSeq == InitCommon /\ embedding_manager = FALSE

NextSeq == SeqAccessOp \/ SeqPredictOp

SpecSeq == InitSeq /\ [][NextSeq]_vars

(* the ids a user accessed, in the order of the accesses *)
AccessesOf(user_id) ==
    [i \in DOMAIN temporal_patterns[user_id] |->
        temporal_patterns[user_id][i].mid]

SimUsers == <<"u0", "u1", "u2", "u3", "u4">>

SimIds == {"A", "B"}

SimAccessOp ==
    \E k \in DOMAIN SimUsers, id \in SimIds :
        /\ k \in {Len(pattern_users), Len(pattern_users) + 1}
        /\ SimUsers[k] \in DOMAIN temporal_patterns
               => id \notin AccessedIds(Predictor, SimUsers[k])
        /\ record_access_event(id, MemoryContext("p1", SimUsers[k], None))

(* _find_similar_users called on the predictor *)
SimFindOp ==
    \E u \in Range(SimUsers) :
        /\ pattern_users # <<>>
        /\ ret' = Returned("find_similar_users", u,
                           find_similar_users(Predictor, u),
                           <<>>)
        /\ UNCHANGED <<clock, embedding_manager, tasks, heap, storeVars,
                       retrieverVars, cacheVars, predictorVars, loaderVars>>

InitSim == InitCommon /\ embedding_manager = FALSE

NextSim == SimAccessOp \/ SimFindOp

SpecSim == InitSim /\ [][NextSim]_vars

(* the sizes of the intersection and of the union of two users' items *)
Shared(u, v) ==
    Cardinality(AccessedIds(Predictor, u) \cap AccessedIds(Predictor, v))

Joint(u, v) ==
    Cardinality(AccessedIds(Predictor, u) \cup AccessedIds(Predictor, v))

(* v is more similar to u than w is: a comparison of the two fractions *)
MoreSimilar(u, v, w) == Shared(u, v) * Joint(u, w) > Shared(u, w) * Joint(u, v)

(* the users that qualify as similar to u *)
Qualified(u) ==
    {v \in DOMAIN temporal_patterns \ {u} :
        Joint(u, v) > 0 /\ 10 * Shared(u, v) > 3 * Joint(u, v)}

(* C33: the similar users returned for u are qualified users other than u,  *)
(* at most three, all of them when at most three qualify, and otherwise     *)
(* three with the highest similarity: no qualified user left out is more    *)
(* similar to u than one that was returned.                                 *)
C33_TopThreeSimilarUsers ==
    (ret.op = "find_similar_users" /\ ret.arg \in DOMAIN temporal_patterns)
        => LET u == ret.arg
               found == Range(ret.result)
           IN  /\ found \subseteq Qualified(u)
               /\ Len(ret.result) = Min2(3, Cardinality(Qualified(u)))
               /\ Cardinality(found) = Len(ret.result)
               /\ \A v \in Qualified(u) \ found, w \in found :
                      ~MoreSimilar(u, v, w)

----------------------------------------------------------------------------
(* Claims about preloading                                                  *)

(* SpecLoad: three items are stored; retrievals of two users that returned  *)
(* nothing or one stored item are recorded, which predicts and preloads;    *)
(* item A is read from the preload cache.                                   *)

LoadEvents == 3

LoadIds == {"A", "B", "C"}

LoadUsers == {"u1", "u2"}

LoadItem(id) ==
    MemoryItem(id, "alpha", EmptyHash, "text", NoContext, {}, 5, "public",
               NoTime, clock)

LoadQuery(u) ==
    MemoryQuery("alpha", MemoryContext("p1", u, None), {}, {}, 10, ONE \div 2,
                0, FALSE, NoRange, None, NoStrategy)

LoadStoreOp ==
    \E id \in LoadIds \ DOMAIN memories :
        store_memory(LoadItem(id), TRUE, TRUE)

LoadRecordOp ==
    \E u \in LoadUsers,
       retrieved \in {<<>>} \cup {<<heap[memories[id]]>> : id \in DOMAIN memories} :
        /\ RecordedEvents < LoadEvents
        /\ record_retrieval_event(LoadQuery(u), retrieved, TRUE)

LoadGetOp == "A" \in DOMAIN cache_memories /\ get_preloaded_memory("A")

InitLoad == InitCommon /\ embedding_manager = FALSE

NextLoad == LoadStoreOp \/ LoadRecordOp \/ LoadGetOp

SpecLoad == InitLoad /\ [][NextLoad]_vars

(* the ids of the ten stored predictions with the highest confidence score: *)
(* those of the predictions that fewer than ten others come before          *)
TopPredicted(preds) ==
    UNION {Range(preds[i].predicted_memory_ids) :
              i \in {i \in DOMAIN preds :
                        Cardinality({j \in DOMAIN preds :
                            \/ preds[j].confidence_score
                                   > preds[i].confidence_score
                            \/ /\ preds[j].confidence_score
                                      = preds[i].confidence_score
                               /\ j < i}) < 10}}

(* the record_retrieval_event call of this step is made for a user *)
RecordedForUser ==
    /\ Called("record_retrieval_event")
    /\ ret'.arg.context.user # None

(* the ids the preloading of this step has to fetch *)
ToFetch == (TopPredicted(predictions') \cap DOMAIN memories)
               \ DOMAIN cache_memories

(* what the preloading of this step has to achieve *)
Preloaded ==
    /\ \A id \in TopPredicted(predictions') \cap DOMAIN memories :
           id \in DOMAIN cache_memories'
    /\ \A id \in TopPredicted(predictions') \cap DOMAIN cache_memories :
           /\ load_times'[id] = load_times[id]
           /\ access_counts'[id] = access_counts[id]
           /\ heap'[cache_memories'[id]] = heap[cache_memories[id]]

----------------------------------------------------------------------------
(* Claims about cleanup                                                     *)

(* SpecClean: two items are stored and stored again with the importance,    *)
(* expiry and access count the caller gives, sixteen days pass at a time,   *)
(* and cleanup runs dry or not, with a disk that lets it unlink or not.     *)

CleanTicks == 2

CleanIds == {"m1", "m2"}

CleanProfiles ==
    {[importance |-> 1, expires |-> FALSE, access_count |-> 0],
     [importance |-> 1, expires |-> FALSE, access_count |-> 2],
     [importance |-> 2, expires |-> FALSE, access_count |-> 0],
     [importance |-> 5, expires |-> TRUE, access_count |-> 0]}

CleanItem(id, tags, profile) ==
    [MemoryItem(id, "alpha", EmptyHash, "text",
                MemoryContext("p1", "u1", None), tags, profile.importance,
                "public",
                IF profile.expires THEN clock + DayMinutes ELSE NoTime,
                clock)
       EXCEPT !.access_count = profile.access_count]

CleanStoreOp ==
    \E id \in CleanIds, tags \in {{"t1"}, {"t2"}}, profile \in CleanProfiles :
        /\ id = "m2" => tags = {"t1"}
        /\ store_memory(CleanItem(id, tags, profile), TRUE, TRUE)

CleanupOp ==
    \E dry_run \in BOOLEAN, disk_ok \in BOOLEAN :
        /\ memories # <<>>
        /\ cleanup(dry_run, disk_ok)

CleanTickOp ==
    /\ clock + 16 * DayMinutes <= CleanTicks * 16 * DayMinutes
    /\ clock' = clock + 16 * DayMinutes
    /\ UNCHANGED <<embedding_manager, tasks, heap, storeVars, retrieverVars, cacheVars,
                   predictorVars, loaderVars, ret>>

InitClean == InitCommon /\ embedding_manager = FALSE

NextClean == CleanStoreOp \/ CleanupOp \/ CleanTickOp

SpecClean == InitClean /\ [][NextClean]_vars

(* the items the cleanup pass targets *)
Targeted ==
    {id \in DOMAIN memories :
        LET m == heap[memories[id]]
        IN  \/ (m.expires_at # NoTime /\ clock > m.expires_at)
            \/ /\ m.importance < 2
               /\ clock - m.created_at > 30 * DayMinutes
               /\ m.access_count < 2}

(* the ids cleanup reports as candidates *)
Reported(r) == {r.result.candidates[i].memory_id : i \in DOMAIN r.result.candidates}

(* cleanup(dry_run=False) deletes the targeted items and keeps the others   *)
(* as they are                                                              *)
CleanupDeletesTargeted ==
    (Called("cleanup") /\ ~ret'.arg)
        => /\ Reported(ret') = Targeted
           /\ DOMAIN memories' = (DOMAIN memories) \ Targeted
           /\ \A id \in DOMAIN memories' :
                  heap'[memories'[id]] = heap[memories[id]]

(* after cleanup(dry_run=False) every id in a set of an index is stored,    *)
(* and every stored item is in the sets of its tags and context keys        *)
CleanupLeavesIndexes ==
    (Called("cleanup") /\ ~ret'.arg)
        => /\ \A t \in DOMAIN memory_index' :
                  memory_index'[t] \subseteq DOMAIN memories'
           /\ \A key \in DOMAIN context_index' :
                  context_index'[key] \subseteq DOMAIN memories'
           /\ \A id \in DOMAIN memories' :
                  LET m == heap'[memories'[id]]
                  IN  /\ \A t \in m.tags : InIndex(memory_index', t, id)
                      /\ \A key \in ContextKeys(m) :
                             InIndex(context_index', key, id)

(* cleanup(dry_run=True) reports the targeted items and changes nothing *)
CleanupDryRun ==
    (Called("cleanup") /\ ret'.arg)
        => /\ Reported(ret') = Targeted
           /\ UNCHANGED <<heap, storeVars>>

(* C35: cleanup(dry_run=False) deletes exactly the items that are expired   *)
(* or have importance < 0.2, age > 30 days and access_count < 2, keeps      *)
(* every other item and leaves the indexes consistent with the remaining    *)
(* items; cleanup(dry_run=True) reports the same candidates and changes     *)
(* nothing in the store.                                                    *)
C35_CleanupDeletesExactlyTargeted ==
    [][CleanupDeletesTargeted /\ CleanupLeavesIndexes /\ CleanupDryRun]_vars

----------------------------------------------------------------------------
(* Claims about the performance series                                      *)

(* SpecPerf: one item is stored and _update_learning is called again and    *)
(* again for the "semantic" strategy with one result whose confidence is    *)
(* the number of the call, so that the entries of the series differ; one    *)
(* call of the run may be for another strategy, have no results, or both.   *)

PerfEvents == 103

PerfQuery ==
    MemoryQuery("alpha", MemoryContext("p1", "u1", None), {}, {}, 10,
                ONE \div 2, 0, FALSE, NoRange, None, NoStrategy)

PerfResult(n) ==
    [memory |-> memories["m1"], total_score |-> n, factor_scores |-> <<>>,
     retrieval_reason |-> "semantic_match", confidence |-> n, rank |-> 1]

(* the calls so far that were not plain *)
OddCalls ==
    Cardinality({i \in DOMAIN retrieval_history :
                    \/ retrieval_history[i].result_count = 0
                    \/ retrieval_history[i].strategy
                           # RetrievalStrategy("semantic")})

PerfStoreOp ==
    /\ memories = <<>>
    /\ store_memory(MemoryItem("m1", "alpha", EmptyHash, "text",
                               MemoryContext("p1", "u1", None), {"t1"}, 5,
                               "public", NoTime, clock), TRUE, TRUE)

PerfLearnOp ==
    \E value \in {"semantic", "importance"}, empty \in BOOLEAN :
        /\ memories # <<>>
        /\ Len(retrieval_history) < PerfEvents
        /\ (value # "semantic" \/ empty) => OddCalls = 0
        /\ update_learning(PerfQuery,
                           IF empty THEN <<>>
                           ELSE <<PerfResult(Len(retrieval_history) + 1)>>,
                           RetrievalStrategy(value))

InitPerf == InitCommon /\ embedding_manager = FALSE

NextPerf == PerfStoreOp \/ PerfLearnOp

SpecPerf == InitPerf /\ [][NextPerf]_vars

(* what one call of _update_learning does to the series *)
SeriesStep ==
    Called("update_learning") =>
        LET results == ret'.arg.results
            strategy == ret'.arg.strategy
            before == Get(strategy_performance, strategy, <<>>)
            after == Get(strategy_performance', strategy, <<>>)
            value == SumField(results, "confidence") \div Len(results)
        IN  /\ \A s \in (DOMAIN strategy_performance') \ {strategy} :
                   /\ s \in DOMAIN strategy_performance
                   /\ strategy_performance'[s] = strategy_performance[s]
            /\ results = <<>> => strategy_performance' = strategy_performance
            /\ (results # <<>> /\ Len(before) < MaxPerformance)
                   => after = Append(before, value)
            /\ (results # <<>> /\ Len(before) = MaxPerformance)
                   => /\ Len(after) = KeptPerformance
                      /\ after[KeptPerformance] = value
                      /\ \A i \in 1..(KeptPerformance - 1) :
                             after[i] = before[Len(before) - KeptPerformance + 1 + i]

(* C36: no strategy's performance series ever holds more than 100 entries;  *)
(* the append that would make it 101 long leaves it holding the 50 most     *)
(* recent entries in order, and a call with an empty result list appends    *)
(* nothing.                                                                 *)
C36_SeriesCappedAtHundred ==
    /\ [](\A s \in DOMAIN strategy_performance :
              Len(strategy_performance[s]) <= MaxPerformance)
    /\ [][SeriesStep]_vars

(* the series has been cut and has grown again *)
C36_Witness ==
    /\ ret.op = "update_learning"
    /\ Len(retrieval_history) > MaxPerformance + 1
    /\ \E s \in DOMAIN strategy_performance :
           /\ Len(strategy_performance[s]) = KeptPerformance + 1
           /\ strategy_performance[s][1] > KeptPerformance

----------------------------------------------------------------------------
(* Claims about concurrent tasks                                            *)

(* SpecTask: store_memory, update_memory and delete_memory tasks on one     *)
(* item run on one event loop with an embedding manager attached; a task    *)
(* runs from one await to the next, and a suspended task resumes at any     *)
(* later moment.  No task changes the tags or the context of an item, so    *)
(* the index sets an item belongs to are the same for its whole life.       *)

MaxTasks == 2

TaskIds == {"m1"}

TaskItem(id) ==
    MemoryItem(id, "alpha", EmptyHash, "text", MemoryContext("p1", "u1", None),
               {"t1"}, 5, "public", NoTime, clock)

TaskCount ==
    Cardinality(tasks.encode_store) + Cardinality(tasks.encode_update)
        + Cardinality(tasks.save)

TaskStoreOp ==
    \E id \in TaskIds :
        /\ TaskCount < MaxTasks
        /\ store_begin(TaskItem(id))

TaskUpdateOp ==
    \E id \in TaskIds, content \in {None, "beta"} :
        /\ TaskCount < MaxTasks
        /\ update_begin(id, content, NoContext, NoTags, NoImportance)

TaskDeleteOp == \E id \in TaskIds : delete_memory(id, TRUE)

TaskStoreEncodedOp ==
    \E item0 \in tasks.encode_store, emb_ok \in BOOLEAN :
        store_encoded(item0, emb_ok)

TaskUpdateEncodedOp ==
    \E t \in tasks.encode_update, emb_ok \in BOOLEAN : update_encoded(t, emb_ok)

TaskSavedOp == \E t \in tasks.save, disk_ok \in BOOLEAN : saved(t, disk_ok)

InitTask == InitCommon /\ embedding_manager = TRUE

NextTask ==
    \/ TaskStoreOp
    \/ TaskUpdateOp
    \/ TaskDeleteOp
    \/ TaskStoreEncodedOp
    \/ TaskUpdateEncodedOp
    \/ TaskSavedOp

SpecTask == InitTask /\ [][NextTask]_vars

(* C37: under any interleaving of store_memory, update_memory and           *)
(* delete_memory tasks that suspend only at their embedding and persistence *)
(* calls, no set of memory_index or context_index and no key of embeddings  *)
(* is an id that is absent from memories; in particular an update_memory    *)
(* that resumes after a delete_memory of its id does not put the id back.   *)
C37_MapsNameStoredIdsOnly ==
    /\ \A t \in DOMAIN memory_index : memory_index[t] \subseteq DOMAIN memories
    /\ \A key \in DOMAIN context_index :
           context_index[key] \subseteq DOMAIN memories
    /\ DOMAIN embeddings \subseteq DOMAIN memories

----------------------------------------------------------------------------
(* Claims about failed updates                                              *)

(* SpecFail: an item is stored with an embedding manager attached and       *)
(* updated in every combination of fields, by callers who name it or an     *)
(* unknown id, with an embedding call that returns or raises.               *)

FailIds == {"m1", "m2"}

FailStoreOp ==
    \E id \in {"m1"} \ DOMAIN memories :
        store_memory(MemoryItem(id, "alpha", EmptyHash, "text",
                                MemoryContext("p1", "u1", None), {"t1"}, 5,
                                "public", NoTime, clock), TRUE, TRUE)

FailUpdateOp ==
    \E id \in FailIds, content \in {None, "beta"},
       context \in {NoContext, MemoryContext("p2", "u1", None)},
       tags \in {NoTags, {"t2"}}, importance \in {NoImportance, 9},
       emb_ok \in BOOLEAN :
        /\ memories # <<>>
        /\ update_memory(id, content, context, tags, importance, emb_ok, TRUE)

FailTickOp == \E d \in {3} : Tick(d)

InitFail == InitCommon /\ embedding_manager = TRUE

NextFail == FailStoreOp \/ FailUpdateOp \/ FailTickOp

SpecFail == InitFail /\ [][NextFail]_vars

(* the fields of an item an update may set *)
Updatable(m) ==
    [content |-> m.content, content_hash |-> m.content_hash, tags |-> m.tags,
     context |-> m.context, importance |-> m.importance,
     updated_at |-> m.updated_at]

(* C38: when update_memory returns False, for an unknown id or because the  *)
(* embedding call failed, every stored item has the content, content_hash,  *)
(* tags, context, importance and updated_at it had before the call, and     *)
(* both indexes are as before.                                              *)
C38_FailedUpdateChangesNothing ==
    [][(Called("update_memory") /\ ret'.result = "False")
          => /\ memory_index' = memory_index
             /\ context_index' = context_index
             /\ DOMAIN memories' = DOMAIN memories
             /\ \A id \in DOMAIN memories :
                    Updatable(heap'[memories'[id]])
                        = Updatable(heap[memories[id]])]_vars

----------------------------------------------------------------------------
(* Claims about deleted items                                               *)

(* C39: every item retrieve returns is in the Item Store at the time of the *)
(* call, also when the answer comes from the query cache: after a           *)
(* delete_memory(id) no retrieve returns the item with that id.             *)
C39_RetrieveReturnsStoredItems ==
    ret.op = "retrieve"
        => \A i \in DOMAIN ret.items : ret.items[i].memory_id \in DOMAIN memories

(* SpecGone: two items are stored, retrieved by a user whose retrieval      *)
(* events make the loader preload them, updated, deleted and stored again,  *)
(* and read from the preload cache.                                         *)

GoneIds == {"A", "B"}

GoneStoreOp ==
    \E id \in GoneIds \ DOMAIN memories : store_memory(LoadItem(id), TRUE, TRUE)

GoneRecordOp ==
    \E retrieved \in {<<heap[memories[id]]>> : id \in DOMAIN memories} :
        /\ RecordedEvents < LoadEvents
        /\ record_retrieval_event(LoadQuery("u1"), retrieved, TRUE)

GoneUpdateOp ==
    \E id \in DOMAIN memories :
        /\ heap[memories[id]].content # "beta"
        /\ update_memory(id, "beta", NoContext, NoTags, NoImportance, TRUE, TRUE)

GoneDeleteOp == \E id \in DOMAIN memories : delete_memory(id, TRUE)

GoneGetOp == \E id \in DOMAIN cache_memories : get_preloaded_memory(id)

InitGone == InitCommon /\ embedding_manager = FALSE

NextGone ==
    GoneStoreOp \/ GoneRecordOp \/ GoneUpdateOp \/ GoneDeleteOp \/ GoneGetOp

SpecGone == InitGone /\ [][NextGone]_vars

(* C40: the item get_preloaded_memory returns is in the Item Store and has  *)
(* the content the Item Store holds for its id, whatever preloads, updates  *)
(* and deletions came before.                                               *)
C40_PreloadedItemIsCurrent ==
    (ret.op = "get_preloaded_memory" /\ ret.result = "item")
        => /\ ret.arg \in DOMAIN memories
           /\ ret.items[1].content = heap[memories[ret.arg]].content

====
